---------------------------- MODULE Spec2Model ----------------------------
(***************************************************************************)
(* A model of bevy_sim_world: the command history engine of                *)
(* src/src/command.rs (pending queue, executed history, rolled-back        *)
(* history, deferred rollback / rollforward counters) and the change       *)
(* record of src/src/change_detection.rs.                                  *)
(*                                                                         *)
(* The GameCommand trait is open; the model instantiates it with a family  *)
(* of counter commands.  A world is abstracted to the value of one integer *)
(* counter it holds.  A command adds its amount on execute and subtracts   *)
(* it on rollback (an exact inverse), and its kind says which call errs.   *)
(***************************************************************************)
EXTENDS Integers, Sequences, FiniteSets, TLC

----------------------------------------------------------------------------
(* Bounds of the model *)

\* number of commands ever submitted (also the range of the logical clock)
MaxCommands == 3

\* largest value a deferred request counter may take
MaxRequests == 2

\* largest number of observers a change record is asked about
MaxPlayers == 3

----------------------------------------------------------------------------
(* Generic helpers *)

Last(s) == s[Len(s)]

Front(s) == SubSeq(s, 1, Len(s) - 1)

Range(s) == {s[i] : i \in 1..Len(s)}

Contains(s, x) == \E i \in 1..Len(s) : s[i] = x

Min(a, b) == IF a <= b THEN a ELSE b

Reverse(s) == [i \in 1..Len(s) |-> s[Len(s) + 1 - i]]

\* the m elements on top of a stack kept as a Vec (the last m), top first
TopOf(s, m) == Reverse(SubSeq(s, Len(s) - m + 1, Len(s)))

\* the stack left when the m elements on top are popped
Below(s, m) == SubSeq(s, 1, Len(s) - m)

StrictlyIncreasing(s) == \A i, j \in 1..Len(s) : i < j => s[i] < s[j]

----------------------------------------------------------------------------
(* State *)

VARIABLES
    queue,               \* GameCommands.queue.queue : Vec<GameCommandMeta>
    history,             \* GameCommands.history.history : Vec<GameCommandMeta>
    rolledback_history,  \* GameCommands.history.rolledback_history
    rollbacks,           \* GameCommands.history.rollbacks : u32
    rollforwards,        \* GameCommands.history.rollforwards : u32
    game_world,          \* SimWorld.world, the simulation's object store
    main_world,          \* the world that holds the GameCommands and SimWorld resources
    now,                 \* the clock read by Utc::now(), one tick per reading
    panicked,            \* TRUE once a handler has panicked
    call,                \* the last handler called and its argument
    log,                 \* the info! lines written by the last handler called
    sim_changed,         \* the SimChanged component of each entity, if it has one
    ret,                 \* what the last check_and_register_seen returned
    entities,            \* the entities of SimWorld.world and their components
    despawned_objects,   \* TrackedDespawns.despawned_objects : HashMap<Entity, SimChanged>
    resource,            \* the tracked resource of SimWorld.world
    resource_tracking,   \* ResourceChangeTracking.resources : HashMap<SimResourceId, SimChanged>
    player_list,         \* SimWorld.player_list.players : Vec<Player>
    component_de_map,    \* GameSerDeRegistry.component_de_map
    resource_de_map,     \* GameSerDeRegistry.resource_de_map
    resource_se_map,     \* GameSerDeRegistry.resource_se_map
    snapshot,            \* the SimState returned by the last request
    delivered,           \* per change record, the observers a delta request has
                         \* returned the item to since the record was installed
    polled,              \* the observers that made a delta request since the
                         \* post schedule last ran
    replaced,            \* the (entity, observer) deliveries that the records
                         \* replaced by the last run of the post schedule had had
    wire,                \* what the last encode returned: nothing, a
                         \* ComponentBinaryState or a ResourceState
    setup_schedule,      \* GameBuilder.setup_schedule : the systems added to it
    commands,            \* GameBuilder.commands : "None" or "Some", the
                         \* GameCommands being queue, history and the counters
    next_player_id,      \* GameBuilder.next_player_id : usize
    setup_runs,          \* per setup system, the times it has run on game_world
    build_steps          \* what build has done, in order: the schedules run and
                         \* the resources inserted

engine_vars == <<queue, history, rolledback_history, rollbacks, rollforwards,
                 game_world, main_world, now, panicked>>

registry_vars == <<component_de_map, resource_de_map, resource_se_map>>

sim_vars == <<entities, despawned_objects, resource, resource_tracking,
              player_list, snapshot, delivered, polled, replaced>>

builder_vars == <<setup_schedule, commands, next_player_id, setup_runs, build_steps>>

ledger_vars == <<sim_changed, ret, sim_vars, registry_vars, wire, builder_vars>>

vars == <<queue, history, rolledback_history, rollbacks, rollforwards,
          game_world, main_world, now, panicked, call, log, sim_changed, ret,
          entities, despawned_objects, resource, resource_tracking, player_list,
          component_de_map, resource_de_map, resource_se_map, snapshot, delivered,
          polled, replaced, wire, setup_schedule, commands, next_player_id,
          setup_runs, build_steps>>

----------------------------------------------------------------------------
(* The GameCommand trait, instantiated *)

\* what a command's calls do:
\*   Ok            execute and rollback both succeed
\*   ExecFails     execute returns Err
\*   RollbackFails execute succeeds, rollback returns Err
\*   ExecOnce      execute succeeds once; the command then turns into ExecFails
\*                 (execute takes &mut self)
Kinds == {"Ok", "ExecFails", "RollbackFails", "ExecOnce"}

\* the commands submitted: one of each kind, each kind with its own amount
GameCommand ==
    {[kind |-> "Ok", amount |-> 1], [kind |-> "ExecOnce", amount |-> 2],
     [kind |-> "RollbackFails", amount |-> 3], [kind |-> "ExecFails", amount |-> 4]}

\* command.execute(world) : Result<(), String>, with the command and the world
\* as they are after the call
Execute(command, world) ==
    CASE command.kind = "ExecFails" ->
            [ok |-> FALSE, command |-> command, world |-> world]
      [] command.kind = "ExecOnce" ->
            [ok |-> TRUE, command |-> [command EXCEPT !.kind = "ExecFails"],
             world |-> world + command.amount]
      [] OTHER ->
            [ok |-> TRUE, command |-> command, world |-> world + command.amount]

\* command.rollback(world) : Result<(), String>
Rollback(command, world) ==
    IF command.kind = "RollbackFails"
    THEN [ok |-> FALSE, command |-> command, world |-> world]
    ELSE [ok |-> TRUE, command |-> command, world |-> world - command.amount]

\* GameCommandMeta { command, command_time }
GameCommandMeta(command, time) == [command |-> command, command_time |-> time]

----------------------------------------------------------------------------
(* GameCommandQueue and GameCommandsHistory *)

\* a push that puts the record at the head of the queue
QueuePushFront(q, command, utc) == <<GameCommandMeta(command, utc)>> \o q

\* GameCommandQueue::push
QueuePush(q, command, utc) == Append(q, GameCommandMeta(command, utc))

\* a push that puts the record at the bottom of the stack
HistoryPushFront(h, command) == <<command>> \o h

\* GameCommandsHistory::push
HistoryPush(h, command) == Append(h, command)

\* a clear that leaves the rolled-back history as it is
ClearRollbackHistoryKeeps(rb) == rb

\* GameCommandsHistory::clear_rollback_history
ClearRollbackHistory(rb) == <<>>

----------------------------------------------------------------------------
(* GameCommands::execute_buffer *)

\* a turn that pushes the command to the history whatever execute returned
ExecuteOnePushesFailed(s, command) ==
    LET r == Execute(command.command, s.world) IN
    [history |-> HistoryPush(s.history, [command EXCEPT !.command = r.command]),
     rolledback_history |-> ClearRollbackHistory(s.rolledback_history),
     world |-> r.world,
     log |-> IF r.ok THEN s.log ELSE Append(s.log, "execution failed")]

\* one turn of the for loop over the drained queue; s holds the history, the
\* rolled-back history, the world and the log
ExecuteOne(s, command) ==
    LET r == Execute(command.command, s.world) IN
    [history |-> IF r.ok
                 THEN HistoryPush(s.history, [command EXCEPT !.command = r.command])
                 ELSE s.history,
     rolledback_history |-> ClearRollbackHistory(s.rolledback_history),
     world |-> r.world,
     log |-> IF r.ok THEN s.log ELSE Append(s.log, "execution failed")]

\* a loop that takes the drained commands newest first
RECURSIVE ExecuteLoopNewestFirst(_, _)
ExecuteLoopNewestFirst(s, q) ==
    IF q = <<>> THEN s ELSE ExecuteLoopNewestFirst(ExecuteOne(s, Last(q)), Front(q))

\* for command in self.queue.queue.drain(..): oldest first
RECURSIVE ExecuteLoop(_, _)
ExecuteLoop(s, q) ==
    IF q = <<>> THEN s ELSE ExecuteLoop(ExecuteOne(s, Head(q)), Tail(q))

\* execute_game_commands_buffer: execute_buffer on SimWorld.world
ExecuteGameCommandsBuffer ==
    /\ ~panicked
    /\ LET s == ExecuteLoop([history |-> history,
                             rolledback_history |-> rolledback_history,
                             world |-> game_world, log |-> <<>>], queue)
       IN /\ queue' = <<>>
          /\ history' = s.history
          /\ rolledback_history' = s.rolledback_history
          /\ game_world' = s.world
          /\ log' = s.log
    /\ call' = [op |-> "execute_buffer", arg |-> 0]
    /\ UNCHANGED <<rollbacks, rollforwards, main_world, now, panicked>>
    /\ UNCHANGED ledger_vars

----------------------------------------------------------------------------
(* execute_game_rollbacks_buffer *)

\* a turn that reports a failed rollback and goes on, as the rollforward does
RollbackOneSwallows(s) ==
    IF s.history # <<>>
    THEN LET command == Last(s.history)
             r == Rollback(command.command, s.world)
         IN IF r.ok
            THEN [s EXCEPT !.history = Front(s.history),
                           !.rolledback_history =
                               Append(@, [command EXCEPT !.command = r.command]),
                           !.world = r.world,
                           !.log = Append(@, "Rollbacked command"),
                           !.rollbacks = @ - 1]
            ELSE [s EXCEPT !.history = Front(s.history),
                           !.world = r.world,
                           !.log = Append(@, "Rollback failed"),
                           !.rollbacks = @ - 1]
    ELSE [s EXCEPT !.rollbacks = @ - 1]

\* one turn of the while loop; s holds the history, the rolled-back history,
\* the counter, the world, the log and the panic flag
RollbackOne(s) ==
    IF s.history # <<>>
    THEN LET command == Last(s.history)
             r == Rollback(command.command, s.world)
         IN IF r.ok
            THEN [s EXCEPT !.history = Front(s.history),
                           !.rolledback_history =
                               Append(@, [command EXCEPT !.command = r.command]),
                           !.world = r.world,
                           !.log = Append(@, "Rollbacked command"),
                           !.rollbacks = @ - 1]
            ELSE \* expect("Rollback failed") panics: the popped command is
                 \* dropped and the counter is not decremented
                 [s EXCEPT !.history = Front(s.history),
                           !.world = r.world,
                           !.panicked = TRUE]
    ELSE [s EXCEPT !.rollbacks = @ - 1]

\* a loop that stops as soon as the executed history is empty
RECURSIVE RollbackLoopStopsAtEmpty(_)
RollbackLoopStopsAtEmpty(s) ==
    IF s.rollbacks = 0 \/ s.panicked \/ s.history = <<>>
    THEN s
    ELSE RollbackLoopStopsAtEmpty(RollbackOne(s))

RECURSIVE RollbackLoop(_)
RollbackLoop(s) ==
    IF s.rollbacks = 0 \/ s.panicked THEN s ELSE RollbackLoop(RollbackOne(s))

\* the rollbacks act on the world the system is run on, which is the world
\* the GameCommands resource lives in
ExecuteGameRollbacksBuffer ==
    /\ ~panicked
    /\ LET s == RollbackLoop([history |-> history,
                              rolledback_history |-> rolledback_history,
                              rollbacks |-> rollbacks,
                              world |-> main_world,
                              log |-> <<>>, panicked |-> FALSE])
       IN /\ history' = s.history
          /\ rolledback_history' = s.rolledback_history
          /\ rollbacks' = s.rollbacks
          /\ main_world' = s.world
          /\ log' = s.log
          /\ panicked' = s.panicked
    /\ call' = [op |-> "rollbacks_buffer", arg |-> rollbacks]
    /\ UNCHANGED <<queue, rollforwards, game_world, now>>
    /\ UNCHANGED ledger_vars

----------------------------------------------------------------------------
(* execute_game_rollforward_buffer *)

\* a turn that pushes the clone of the command and leaves the command on the
\* rolled-back history
RollforwardOneCopies(s) ==
    IF s.rolledback_history # <<>>
    THEN LET command == Last(s.rolledback_history)
             r == Execute(command.command, s.world)
         IN IF r.ok
            THEN [s EXCEPT !.history =
                               HistoryPush(@, [command EXCEPT !.command = r.command]),
                           !.world = r.world,
                           !.rollforwards = @ - 1]
            ELSE [s EXCEPT !.rolledback_history = Front(s.rolledback_history),
                           !.world = r.world,
                           !.log = Append(@, "Rolledforward failed"),
                           !.rollforwards = @ - 1]
    ELSE [s EXCEPT !.rollforwards = @ - 1]

\* a turn that clears the rolled-back history after a re-execution, as a turn
\* of execute_buffer does
RollforwardOneClears(s) ==
    IF s.rolledback_history # <<>>
    THEN LET command == Last(s.rolledback_history)
             r == Execute(command.command, s.world)
         IN IF r.ok
            THEN [s EXCEPT !.rolledback_history = ClearRollbackHistory(@),
                           !.history =
                               HistoryPush(@, [command EXCEPT !.command = r.command]),
                           !.world = r.world,
                           !.rollforwards = @ - 1]
            ELSE [s EXCEPT !.rolledback_history = Front(s.rolledback_history),
                           !.world = r.world,
                           !.log = Append(@, "Rolledforward failed"),
                           !.rollforwards = @ - 1]
    ELSE [s EXCEPT !.rollforwards = @ - 1]

\* a turn that puts a command whose execute failed back where it was
RollforwardOneKeepsFailed(s) ==
    IF s.rolledback_history # <<>>
    THEN LET command == Last(s.rolledback_history)
             r == Execute(command.command, s.world)
         IN IF r.ok
            THEN [s EXCEPT !.rolledback_history = Front(s.rolledback_history),
                           !.history =
                               HistoryPush(@, [command EXCEPT !.command = r.command]),
                           !.world = r.world,
                           !.rollforwards = @ - 1]
            ELSE [s EXCEPT !.world = r.world,
                           !.log = Append(@, "Rolledforward failed"),
                           !.rollforwards = @ - 1]
    ELSE [s EXCEPT !.rollforwards = @ - 1]

\* one turn of the while loop; s holds the history, the rolled-back history,
\* the counter, the world and the log
RollforwardOne(s) ==
    IF s.rolledback_history # <<>>
    THEN LET command == Last(s.rolledback_history)
             r == Execute(command.command, s.world)
         IN IF r.ok
            THEN [s EXCEPT !.rolledback_history = Front(s.rolledback_history),
                           !.history =
                               HistoryPush(@, [command EXCEPT !.command = r.command]),
                           !.world = r.world,
                           !.rollforwards = @ - 1]
            ELSE [s EXCEPT !.rolledback_history = Front(s.rolledback_history),
                           !.world = r.world,
                           !.log = Append(@, "Rolledforward failed"),
                           !.rollforwards = @ - 1]
    ELSE [s EXCEPT !.rollforwards = @ - 1]

RECURSIVE RollforwardLoop(_)
RollforwardLoop(s) ==
    IF s.rollforwards = 0 THEN s ELSE RollforwardLoop(RollforwardOne(s))

ExecuteGameRollforwardBuffer ==
    /\ ~panicked
    /\ LET s == RollforwardLoop([history |-> history,
                                 rolledback_history |-> rolledback_history,
                                 rollforwards |-> rollforwards,
                                 world |-> main_world,
                                 log |-> <<>>])
       IN /\ history' = s.history
          /\ rolledback_history' = s.rolledback_history
          /\ rollforwards' = s.rollforwards
          /\ main_world' = s.world
          /\ log' = s.log
    /\ call' = [op |-> "rollforward_buffer", arg |-> rollforwards]
    /\ UNCHANGED <<queue, rollbacks, game_world, now, panicked>>
    /\ UNCHANGED ledger_vars

----------------------------------------------------------------------------
(* Requests and submission *)

\* GameCommands::rollback_one
RollbackOneRequest ==
    /\ ~panicked
    /\ rollbacks + 1 <= MaxRequests
    /\ rollbacks' = rollbacks + 1
    /\ call' = [op |-> "rollback_one", arg |-> 1]
    /\ log' = <<>>
    /\ UNCHANGED <<queue, history, rolledback_history, rollforwards,
                   game_world, main_world, now, panicked>>
    /\ UNCHANGED ledger_vars

\* a request that overwrites the counter
RollbackAmountSets(count, amount) == amount

\* GameCommands::rollback_amount
RollbackAmountAdd(count, amount) == count + amount

RollbackAmount(amount) ==
    /\ ~panicked
    /\ rollbacks + amount <= MaxRequests
    /\ rollbacks' = RollbackAmountAdd(rollbacks, amount)
    /\ call' = [op |-> "rollback_amount", arg |-> amount]
    /\ log' = <<>>
    /\ UNCHANGED <<queue, history, rolledback_history, rollforwards,
                   game_world, main_world, now, panicked>>
    /\ UNCHANGED ledger_vars

\* GameCommands::rollforward
RollforwardAdd(count, amount) == count + amount

Rollforward(amount) ==
    /\ ~panicked
    /\ rollforwards + amount <= MaxRequests
    /\ rollforwards' = RollforwardAdd(rollforwards, amount)
    /\ call' = [op |-> "rollforward", arg |-> amount]
    /\ log' = <<>>
    /\ UNCHANGED <<queue, history, rolledback_history, rollbacks,
                   game_world, main_world, now, panicked>>
    /\ UNCHANGED ledger_vars

\* GameCommands::add
Add(command) ==
    /\ ~panicked
    /\ now < MaxCommands
    /\ queue' = QueuePush(queue, command, now + 1)
    /\ now' = now + 1
    /\ call' = [op |-> "add", arg |-> 0]
    /\ log' = <<>>
    /\ UNCHANGED <<history, rolledback_history, rollbacks, rollforwards,
                   game_world, main_world, panicked>>
    /\ UNCHANGED ledger_vars

----------------------------------------------------------------------------
(* SimChanged, the change record *)

\* the entities of the simulation world
Entities == {"e1", "e2"}

\* the ids an observer may have: GameBuilder::add_player hands them out from 0
PlayerIds == 0..(MaxPlayers - 1)

\* an entity without the SimChanged component
NoSimChanged == [none |-> TRUE]

\* SimChanged::default()
SimChangedDefault == [players_seen |-> <<>>]

\* a check that registers the id whether or not it was seen
CheckAndRegisterSeenAlwaysPushes(changed, id) ==
    [changed |-> [changed EXCEPT !.players_seen = Append(@, id)],
     ret |-> Contains(changed.players_seen, id)]

\* a check that registers nothing
CheckAndRegisterSeenNeverPushes(changed, id) ==
    [changed |-> changed, ret |-> Contains(changed.players_seen, id)]

\* a check that, registering an id, forgets the ids registered before
CheckAndRegisterSeenReplaces(changed, id) ==
    IF Contains(changed.players_seen, id)
    THEN [changed |-> changed, ret |-> TRUE]
    ELSE [changed |-> [changed EXCEPT !.players_seen = <<id>>],
          ret |-> FALSE]

\* SimChanged::check_and_register_seen: the record after the call and the
\* value returned
CheckAndRegisterSeen(changed, id) ==
    IF Contains(changed.players_seen, id)
    THEN [changed |-> changed, ret |-> TRUE]
    ELSE [changed |-> [changed EXCEPT !.players_seen = Append(@, id)],
          ret |-> FALSE]

\* Player { id, needs_state }
Player(id, needs_state) == [id |-> id, needs_state |-> needs_state]

\* the player lists all_seen is asked about: up to two players, any ids and flags
PlayerLists ==
    LET P == {Player(id, flag) : id \in PlayerIds, flag \in BOOLEAN}
    IN {<<>>} \cup {<<a>> : a \in P} \cup {<<a, b>> : a \in P, b \in P}

\* an all_seen that asks for every listed player, flagged or not
RECURSIVE AllSeenIgnoresFlag(_, _)
AllSeenIgnoresFlag(changed, players) ==
    IF players = <<>> THEN TRUE
    ELSE IF ~Contains(changed.players_seen, Head(players).id) THEN FALSE
    ELSE AllSeenIgnoresFlag(changed, Tail(players))

\* a check that is content with one registered player that needs state
AllSeenAnyRequired(changed, players) ==
    LET required == {players[i].id : i \in {j \in 1..Len(players) : players[j].needs_state}}
    IN required = {} \/ \E id \in required : Contains(changed.players_seen, id)

\* SimChanged::all_seen: false at the first player that needs state and is
\* not registered, true when the list is exhausted
RECURSIVE AllSeen(_, _)
AllSeen(changed, players) ==
    IF players = <<>> THEN TRUE
    ELSE IF Head(players).needs_state
            /\ ~Contains(changed.players_seen, Head(players).id)
         THEN FALSE
    ELSE AllSeen(changed, Tail(players))

\* SimChanged::was_seen
WasSeen(changed, id) == Contains(changed.players_seen, id)

\* track_component_changes: every entity whose tracked component changed or
\* was removed gets a fresh SimChanged, in place of the one it had
TrackComponentChanges(touched) ==
    /\ touched # {}
    /\ sim_changed' = [entity \in Entities |->
                          IF entity \in touched THEN SimChangedDefault
                          ELSE sim_changed[entity]]
    /\ call' = [op |-> "track_component_changes", arg |-> 0]
    /\ log' = <<>>
    /\ UNCHANGED ret
    /\ UNCHANGED <<engine_vars, builder_vars>>
    /\ UNCHANGED <<sim_vars, registry_vars, wire>>

\* check_and_register_seen called on the record of one entity
CheckAndRegisterSeenCall(entity, id) ==
    /\ sim_changed[entity] # NoSimChanged
    /\ LET r == CheckAndRegisterSeen(sim_changed[entity], id)
       IN /\ sim_changed' = [sim_changed EXCEPT ![entity] = r.changed]
          /\ ret' = r.ret
    /\ call' = [op |-> "check_and_register_seen", arg |-> <<entity, id>>]
    /\ log' = <<>>
    /\ UNCHANGED <<engine_vars, builder_vars>>
    /\ UNCHANGED <<sim_vars, registry_vars, wire>>

\* was_seen called on the record of one entity
WasSeenCall(entity, id) ==
    /\ sim_changed[entity] # NoSimChanged
    /\ ret' = WasSeen(sim_changed[entity], id)
    /\ call' = [op |-> "was_seen", arg |-> <<entity, id>>]
    /\ log' = <<>>
    /\ UNCHANGED sim_changed
    /\ UNCHANGED <<engine_vars, builder_vars>>
    /\ UNCHANGED <<sim_vars, registry_vars, wire>>

\* all_seen called on the record of one entity
AllSeenCall(entity, players) ==
    /\ sim_changed[entity] # NoSimChanged
    /\ ret' = AllSeen(sim_changed[entity], players)
    /\ call' = [op |-> "all_seen", arg |-> <<entity, players>>]
    /\ log' = <<>>
    /\ UNCHANGED sim_changed
    /\ UNCHANGED <<engine_vars, builder_vars>>
    /\ UNCHANGED <<sim_vars, registry_vars, wire>>

----------------------------------------------------------------------------
(* The simulation world: entities, resources and the three change ledgers *)

\* the observers that make requests (StateDif::for_player)
Observers == {0, 1}

\* save ids of the component and the resource of the tests
TestComponentId == 25

TestResourceId == 25

\* what an entity is made of: "object" carries the registered saveable
\* component, "player" carries it together with a Player component, "unsaved"
\* carries only a component that is tracked with register_component_track_changes
\* and is not registered as dyn SaveId
EntityKinds == {"object", "player", "unsaved"}

\* the entities the explored worlds spawn, mutate and despawn
SimEntities == {"e1"}

\* an entity id that was never spawned
Unspawned == [status |-> "unspawned"]

\* an entity id whose entity was despawned
Despawned == [status |-> "despawned"]

\* a live entity; changed says that its tracked component changed since the
\* post schedule last ran, despawn_tracked that it carries DespawnTracked
Alive(kind, value, changed, despawn_tracked) ==
    [status |-> "alive", kind |-> kind, value |-> value, changed |-> changed,
     despawn_tracked |-> despawn_tracked]

\* the tracked resource is not in the world
NoResource == [present |-> FALSE]

\* the tracked resource with its value; changed as for entities
SomeResource(value, changed) == [present |-> TRUE, value |-> value, changed |-> changed]

\* an empty HashMap
EmptyMap == [key \in {} |-> 0]

\* HashMap::insert
MapInsert(map, key, value) ==
    [k \in DOMAIN map \cup {key} |-> IF k = key THEN value ELSE map[k]]

\* bincode of a u32 newtype: four bytes, little endian
ToBinary(value) ==
    <<value % 256, (value \div 256) % 256, (value \div 65536) % 256,
      (value \div 16777216) % 256>>

\* SaveId::save of the component of the tests
ComponentSave(value) == [id |-> TestComponentId, component |-> ToBinary(value)]

\* the Player component carried by a "player" entity
PlayerComponent == Player(0, TRUE)

\* an entity matches &dyn SaveId when it has a component registered as one
HasSaveId(entity) ==
    /\ entities[entity].status = "alive"
    /\ entities[entity].kind \in {"object", "player"}

\* SimState with nothing in it
EmptyState == [players |-> {}, resources |-> {}, entities |-> {}, despawned_objects |-> {}]

\* nobody has been handed anything
NoneDelivered ==
    [objects |-> [entity \in Entities |-> {}],
     despawns |-> [entity \in Entities |-> {}],
     resources |-> {}]

\* the player lists a game is built with
SimPlayerLists ==
    {<<>>, <<Player(0, TRUE), Player(1, TRUE)>>, <<Player(0, TRUE), Player(1, FALSE)>>,
     <<Player(0, FALSE), Player(1, FALSE)>>}

\* World::spawn of a new entity
Spawn(entity, kind) ==
    /\ entities[entity] = Unspawned
    /\ entities' = [entities EXCEPT ![entity] = Alive(kind, 0, TRUE, FALSE)]
    /\ snapshot' = EmptyState
    /\ call' = [op |-> "spawn", arg |-> entity]
    /\ log' = <<>>
    /\ UNCHANGED <<sim_changed, ret, despawned_objects, resource, resource_tracking,
                   player_list, delivered, polled,
                   replaced>>
    /\ UNCHANGED <<engine_vars, registry_vars, wire, builder_vars>>

\* get_mut on the tracked component of an entity; the saveable component gets
\* a new value
Mutate(entity) ==
    /\ entities[entity].status = "alive"
    /\ entities' = [entities EXCEPT
                       ![entity].value = IF entities[entity].kind = "unsaved" THEN @ ELSE 1 - @,
                       ![entity].changed = TRUE]
    /\ snapshot' = EmptyState
    /\ call' = [op |-> "mutate", arg |-> entity]
    /\ log' = <<>>
    /\ UNCHANGED <<sim_changed, ret, despawned_objects, resource, resource_tracking,
                   player_list, delivered, polled,
                   replaced>>
    /\ UNCHANGED <<engine_vars, registry_vars, wire, builder_vars>>

\* inserting DespawnTracked on an entity
InsertDespawnTracked(entity) ==
    /\ entities[entity].status = "alive"
    /\ ~entities[entity].despawn_tracked
    /\ entities' = [entities EXCEPT ![entity].despawn_tracked = TRUE]
    /\ snapshot' = EmptyState
    /\ call' = [op |-> "insert_despawn_tracked", arg |-> entity]
    /\ log' = <<>>
    /\ UNCHANGED <<sim_changed, ret, despawned_objects, resource, resource_tracking,
                   player_list, delivered, polled,
                   replaced>>
    /\ UNCHANGED <<engine_vars, registry_vars, wire, builder_vars>>

\* World::insert_resource, or a mutable access that writes a new value
WriteResource ==
    /\ resource' = IF resource.present THEN SomeResource(1 - resource.value, TRUE)
                   ELSE SomeResource(0, TRUE)
    /\ snapshot' = EmptyState
    /\ call' = [op |-> "write_resource", arg |-> 0]
    /\ log' = <<>>
    /\ UNCHANGED <<sim_changed, ret, entities, despawned_objects, resource_tracking,
                   player_list, delivered, polled,
                   replaced>>
    /\ UNCHANGED <<engine_vars, registry_vars, wire, builder_vars>>

\* an insert that leaves a record the entity already has
InsertSimChangedKeeps(previous) ==
    IF previous = NoSimChanged THEN SimChangedDefault ELSE previous

\* commands.entity(entity).insert(SimChanged::default()): the new component
\* takes the place of the one the entity had
InsertSimChanged(previous) == SimChangedDefault

\* a despawn_objects that despawns without recording
DespawnObjectsForgets(despawns, marked) == despawns

\* a despawn_objects whose query lacks With<DespawnTracked> when it records
DespawnObjectsRecordsLive(despawns, marked) ==
    LET alive == {entity \in Entities : entities[entity].status = "alive"}
    IN [entity \in DOMAIN despawns \cup alive |->
           IF entity \in alive THEN SimChangedDefault ELSE despawns[entity]]

\* despawn_objects: the ledger after an insert of a default record for every
\* entity that carries DespawnTracked
DespawnObjects(despawns, marked) ==
    [entity \in DOMAIN despawns \cup marked |->
        IF entity \in marked THEN SimChangedDefault ELSE despawns[entity]]

\* GameRuntime::simulate with the default schedules: despawn_objects records and
\* despawns every entity carrying DespawnTracked, then track_component_changes
\* and track_resource_changes give a fresh record to whatever changed since the
\* schedule last ran.  The call is recorded with the deliveries the replaced
\* records had: the (entity, observer) pairs and the observers of the resource.
Simulate ==
    LET marked == {entity \in Entities :
                      /\ entities[entity].status = "alive"
                      /\ entities[entity].despawn_tracked}
        touched == {entity \in Entities \ marked :
                       /\ entities[entity].status = "alive"
                       /\ entities[entity].changed}
        resource_changed == resource.present /\ resource.changed
    IN /\ despawned_objects' = DespawnObjects(despawned_objects, marked)
       /\ entities' = [entity \in Entities |->
                          IF entity \in marked THEN Despawned
                          ELSE IF entities[entity].status = "alive"
                               THEN [entities[entity] EXCEPT !.changed = FALSE]
                          ELSE entities[entity]]
       /\ sim_changed' = [entity \in Entities |->
                             IF entity \in marked THEN NoSimChanged
                             ELSE IF entity \in touched
                                  THEN InsertSimChanged(sim_changed[entity])
                             ELSE sim_changed[entity]]
       /\ resource_tracking' =
              IF resource_changed
              THEN MapInsert(resource_tracking, TestResourceId, SimChangedDefault)
              ELSE resource_tracking
       /\ resource' = IF resource.present THEN [resource EXCEPT !.changed = FALSE]
                      ELSE resource
       /\ delivered' =
              [objects |-> [entity \in Entities |->
                               IF entity \in marked \cup touched THEN {}
                               ELSE delivered.objects[entity]],
               despawns |-> [entity \in Entities |->
                                IF entity \in marked THEN {}
                                ELSE delivered.despawns[entity]],
               resources |-> IF resource_changed THEN {} ELSE delivered.resources]
       /\ polled' = {}
       /\ replaced' = {<<entity, id>> \in touched \X Observers :
                           id \in delivered.objects[entity]}
       /\ snapshot' = EmptyState
       /\ call' = [op |-> "simulate",
                   arg |-> [objects |-> {<<entity, id>> \in touched \X Observers :
                                            id \in delivered.objects[entity]},
                            resources |-> IF resource_changed THEN delivered.resources
                                          ELSE {}]]
       /\ log' = <<>>
       /\ UNCHANGED <<ret, player_list>>
       /\ UNCHANGED <<engine_vars, registry_vars, wire, builder_vars>>

\* serialize_resource_from_world: nothing when the resource is not in the world
SerializeResourceFromWorld ==
    IF resource.present
    THEN {[resource_id |-> TestResourceId, resource |-> ToBinary(resource.value)]}
    ELSE {}

\* GameSerDeRegistry::serialize_resource: nothing when the id has no serializer
SerializeResource(id) ==
    IF id \in DOMAIN resource_se_map THEN SerializeResourceFromWorld ELSE {}

\* an entry whose components were not pushed
EntityStateOfNoComponents(entity) ==
    IF entities[entity].kind = "player"
    THEN [player_id |-> PlayerComponent, components |-> <<>>]
    ELSE [entity |-> entity, components |-> <<>>]

\* the PlayerState or EntityState pushed for an entity
EntityStateOf(entity) ==
    IF entities[entity].kind = "player"
    THEN [player_id |-> PlayerComponent,
          components |-> <<ComponentSave(entities[entity].value)>>]
    ELSE [entity |-> entity,
          components |-> <<ComponentSave(entities[entity].value)>>]

\* a query without the filter
SaveableWithMarked == {entity \in Entities : HasSaveId(entity)}

\* the entities a request with the filter Without<DespawnTracked> iterates
Saveable == {entity \in Entities : HasSaveId(entity) /\ ~entities[entity].despawn_tracked}

\* the entities a delta request visits: those of the query that carry a record
Visited == {entity \in Saveable : sim_changed[entity] # NoSimChanged}

\* the entities, despawn records and resource records for which
\* check_and_register_seen returns false
Fresh(for_player) ==
    {entity \in Visited : ~CheckAndRegisterSeen(sim_changed[entity], for_player).ret}

FreshDespawns(for_player) ==
    {entity \in DOMAIN despawned_objects :
        ~CheckAndRegisterSeen(despawned_objects[entity], for_player).ret}

FreshResources(for_player) ==
    {id \in DOMAIN resource_tracking :
        ~CheckAndRegisterSeen(resource_tracking[id], for_player).ret}

\* the SimState a delta request builds
StateDifState(for_player) ==
    [players |-> {EntityStateOf(entity) :
                     entity \in {e \in Fresh(for_player) : entities[e].kind = "player"}},
     entities |-> {EntityStateOf(entity) :
                      entity \in {e \in Fresh(for_player) : entities[e].kind # "player"}},
     despawned_objects |-> FreshDespawns(for_player),
     resources |-> UNION {SerializeResource(id) : id \in FreshResources(for_player)}]

\* StateDif::request
StateDifRequest(for_player) ==
    LET visited == Visited
        fresh == Fresh(for_player)
        fresh_despawns == FreshDespawns(for_player)
        state == StateDifState(for_player)
    IN /\ sim_changed' = [entity \in Entities |->
                             IF entity \in visited
                             THEN CheckAndRegisterSeen(sim_changed[entity], for_player).changed
                             ELSE sim_changed[entity]]
       /\ despawned_objects' =
              [entity \in DOMAIN despawned_objects |->
                  CheckAndRegisterSeen(despawned_objects[entity], for_player).changed]
       /\ resource_tracking' =
              [id \in DOMAIN resource_tracking |->
                  CheckAndRegisterSeen(resource_tracking[id], for_player).changed]
       /\ snapshot' = state
       /\ delivered' =
              [objects |-> [entity \in Entities |->
                               IF entity \in fresh
                               THEN delivered.objects[entity] \cup {for_player}
                               ELSE delivered.objects[entity]],
               despawns |-> [entity \in Entities |->
                                IF entity \in fresh_despawns
                                THEN delivered.despawns[entity] \cup {for_player}
                                ELSE delivered.despawns[entity]],
               resources |-> IF state.resources # {}
                             THEN delivered.resources \cup {for_player}
                             ELSE delivered.resources]
       /\ polled' = polled \cup {for_player}
       /\ call' = [op |-> "state_dif", arg |-> for_player]
       /\ log' = <<>>
       /\ UNCHANGED <<ret, entities, resource, player_list, replaced>>
       /\ UNCHANGED <<engine_vars, registry_vars, wire, builder_vars>>

\* a full request that registers an observer in the records it iterates
AllStateVisitRegisters(changed) == CheckAndRegisterSeen(changed, 0).changed

\* for (id, _) in ...iter_mut(): the record is bound to nothing and stays as it is
AllStateVisit(changed) == changed

\* AllState::request
AllStateRequest ==
    /\ snapshot' =
           [players |-> {EntityStateOf(entity) :
                            entity \in {e \in Saveable : entities[e].kind = "player"}},
            entities |-> {EntityStateOf(entity) :
                             entity \in {e \in Saveable : entities[e].kind # "player"}},
            despawned_objects |-> DOMAIN despawned_objects,
            resources |-> UNION {SerializeResource(id) : id \in DOMAIN resource_tracking}]
    /\ despawned_objects' =
           [entity \in DOMAIN despawned_objects |->
               AllStateVisit(despawned_objects[entity])]
    /\ resource_tracking' =
           [id \in DOMAIN resource_tracking |-> AllStateVisit(resource_tracking[id])]
    /\ call' = [op |-> "all_state", arg |-> 0]
    /\ log' = <<>>
    /\ UNCHANGED <<sim_changed, ret, entities, resource, player_list, delivered, polled,
                   replaced>>
    /\ UNCHANGED <<engine_vars, registry_vars, wire, builder_vars>>

\* a removal rule that also drops the records nobody has seen
ClearedAlsoUnseen(changed, players) ==
    AllSeen(changed, players) \/ changed.players_seen = <<>>

\* whether clear_changed removes a record
Cleared(changed, players) == AllSeen(changed, players)

\* SimWorld::clear_changed
ClearChanged(players) ==
    LET gone == {entity \in Entities :
                    /\ sim_changed[entity] # NoSimChanged
                    /\ Cleared(sim_changed[entity], players)}
        gone_despawns == {entity \in DOMAIN despawned_objects :
                             Cleared(despawned_objects[entity], players)}
        gone_resources == {id \in DOMAIN resource_tracking :
                              Cleared(resource_tracking[id], players)}
    IN /\ sim_changed' = [entity \in Entities |->
                             IF entity \in gone THEN NoSimChanged
                             ELSE sim_changed[entity]]
       /\ despawned_objects' =
              [entity \in DOMAIN despawned_objects \ gone_despawns |->
                  despawned_objects[entity]]
       /\ resource_tracking' =
              [id \in DOMAIN resource_tracking \ gone_resources |->
                  resource_tracking[id]]
       /\ delivered' =
              [objects |-> [entity \in Entities |->
                               IF entity \in gone THEN {}
                               ELSE delivered.objects[entity]],
               despawns |-> [entity \in Entities |->
                                IF entity \in gone_despawns THEN {}
                                ELSE delivered.despawns[entity]],
               resources |-> IF gone_resources # {} THEN {} ELSE delivered.resources]
       /\ snapshot' = EmptyState
       /\ call' = [op |-> "clear_changed", arg |-> players]
       /\ log' = <<>>
       /\ UNCHANGED <<ret, entities, resource, player_list, polled, replaced>>
       /\ UNCHANGED <<engine_vars, registry_vars, wire, builder_vars>>

----------------------------------------------------------------------------
(* GameSerDeRegistry, the codec registry *)

\* the component types offered for registration: the two of the crate, the one
\* of the tests and one more whose save id is that of the test component
ComponentTypes == {"PlayerMarker", "Player", "TestComponent", "OtherComponent"}

\* the resource types offered for registration: the one of the tests, one with
\* the same save id and one with the save id of PlayerMarker
ResourceTypes == {"TestResource", "OtherResource", "MarkerResource"}

\* SaveId::save_id_const of each type
SaveIdConst(type) ==
    CASE type = "PlayerMarker" -> 0
      [] type = "Player" -> 1
      [] type = "TestComponent" -> TestComponentId
      [] type = "OtherComponent" -> TestComponentId
      [] type = "TestResource" -> TestResourceId
      [] type = "OtherResource" -> TestResourceId
      [] type = "MarkerResource" -> 0

\* a lookup that never finds the key
ContainsKeyNever(map, key) == FALSE

\* HashMap::contains_key
ContainsKey(map, key) == key \in DOMAIN map

\* GameSerDeRegistry::register_component::<C>: panics when the id of C is a key
\* of component_de_map, registers the deserializer of C otherwise
RegisterComponent(type) ==
    /\ ~panicked
    /\ IF ContainsKey(component_de_map, SaveIdConst(type))
       THEN /\ panicked' = TRUE
            /\ UNCHANGED component_de_map
       ELSE /\ component_de_map' = MapInsert(component_de_map, SaveIdConst(type), type)
            /\ UNCHANGED panicked
    /\ call' = [op |-> "register_component", arg |-> type]
    /\ log' = <<>>
    /\ UNCHANGED <<resource_de_map, resource_se_map>>
    /\ UNCHANGED <<queue, history, rolledback_history, rollbacks, rollforwards,
                   game_world, main_world, now>>
    /\ UNCHANGED <<sim_changed, ret, sim_vars, wire, builder_vars>>

\* GameSerDeRegistry::register_resource::<R>: panics when the id of R is a key
\* of resource_de_map, registers the deserializer and the serializer of R
\* otherwise
RegisterResource(type) ==
    /\ ~panicked
    /\ IF ContainsKey(resource_de_map, SaveIdConst(type))
       THEN /\ panicked' = TRUE
            /\ UNCHANGED <<resource_de_map, resource_se_map>>
       ELSE /\ resource_de_map' = MapInsert(resource_de_map, SaveIdConst(type), type)
            /\ resource_se_map' = MapInsert(resource_se_map, SaveIdConst(type), type)
            /\ UNCHANGED panicked
    /\ call' = [op |-> "register_resource", arg |-> type]
    /\ log' = <<>>
    /\ UNCHANGED component_de_map
    /\ UNCHANGED <<queue, history, rolledback_history, rollbacks, rollforwards,
                   game_world, main_world, now>>
    /\ UNCHANGED <<sim_changed, ret, sim_vars, wire, builder_vars>>

----------------------------------------------------------------------------
(* Encoding and decoding through the registry *)

\* the values encoded: u32 values that reach each of the four bytes
CodecValues == {0, 1, 258, 16909060}

\* byte strings bincode cannot read a u32 from, and one with a byte to spare
OddBytes == {<<>>, <<1, 2, 3>>, <<1, 0, 0, 0, 9>>}

\* an id no codec is registered under
UnknownId == 7

\* the byte strings handed to the decoders
CodecBytes == {ToBinary(value) : value \in CodecValues} \cup OddBytes

\* the ComponentBinaryState / ResourceState values handed to the decoders
ComponentStates ==
    {[id |-> id, component |-> bytes] :
        id \in {TestComponentId, UnknownId}, bytes \in CodecBytes}

ResourceStates ==
    {[resource_id |-> id, resource |-> bytes] :
        id \in {TestResourceId, UnknownId}, bytes \in CodecBytes}

\* a decoder that reads missing bytes as zero
FromBinaryPads(bytes) ==
    LET byte(i) == IF i <= Len(bytes) THEN bytes[i] ELSE 0
    IN [ok |-> TRUE,
        value |-> byte(1) + 256 * byte(2) + 65536 * byte(3) + 16777216 * byte(4)]

\* a decoder that reads the bytes in big-endian order
FromBinaryBigEndian(bytes) ==
    IF Len(bytes) < 4 THEN [ok |-> FALSE]
    ELSE [ok |-> TRUE,
          value |-> bytes[4] + 256 * bytes[3] + 65536 * bytes[2] + 16777216 * bytes[1]]

\* bincode::deserialize of a u32 newtype: an error when fewer than four bytes
\* are there, the little-endian value of the first four otherwise (bytes after
\* them are allowed)
FromBinary(bytes) ==
    IF Len(bytes) < 4 THEN [ok |-> FALSE]
    ELSE [ok |-> TRUE,
          value |-> bytes[1] + 256 * bytes[2] + 65536 * bytes[3] + 16777216 * bytes[4]]

\* component_deserialize_onto::<TestComponent>: the entity as it is after the
\* call; a value that decodes is inserted as the entity's component
ComponentDeserializeOnto(bytes, target) ==
    LET r == FromBinary(bytes)
    IN IF r.ok
       THEN Alive(IF target.kind \in {"player", "owner"} THEN "player" ELSE "object",
                  r.value, TRUE, target.despawn_tracked)
       ELSE target

\* resource_deserialize_into_world::<TestResource>: the resource as it is after
\* the call
ResourceDeserializeIntoWorld(bytes, current) ==
    LET r == FromBinary(bytes)
    IN IF r.ok THEN SomeResource(r.value, TRUE) ELSE current

\* World::spawn_empty: an entity without components
SpawnEmpty(entity) ==
    /\ entities[entity] = Unspawned
    /\ entities' = [entities EXCEPT ![entity] = Alive("empty", 0, FALSE, FALSE)]
    /\ call' = [op |-> "spawn_empty", arg |-> entity]
    /\ log' = <<>>
    /\ UNCHANGED <<sim_changed, ret, despawned_objects, resource, resource_tracking,
                   player_list, snapshot, delivered, polled, replaced>>
    /\ UNCHANGED <<engine_vars, registry_vars, wire, builder_vars>>

\* GameSerDeRegistry::deserialize_component_onto
DeserializeComponentOnto(data, entity) ==
    /\ entities[entity].status = "alive"
    /\ entities' =
           IF ContainsKey(component_de_map, data.id)
           THEN [entities EXCEPT
                    ![entity] = ComponentDeserializeOnto(data.component, entities[entity])]
           ELSE entities
    /\ call' = [op |-> "deserialize_component_onto", arg |-> <<data, entity>>]
    /\ log' = <<>>
    /\ UNCHANGED <<sim_changed, ret, despawned_objects, resource, resource_tracking,
                   player_list, snapshot, delivered, polled, replaced>>
    /\ UNCHANGED <<engine_vars, registry_vars, wire, builder_vars>>

\* GameSerDeRegistry::deserialize_resource
DeserializeResource(resource_state) ==
    /\ resource' =
           IF ContainsKey(resource_de_map, resource_state.resource_id)
           THEN ResourceDeserializeIntoWorld(resource_state.resource, resource)
           ELSE resource
    /\ call' = [op |-> "deserialize_resource", arg |-> resource_state]
    /\ log' = <<>>
    /\ UNCHANGED <<sim_changed, ret, entities, despawned_objects, resource_tracking,
                   player_list, snapshot, delivered, polled, replaced>>
    /\ UNCHANGED <<engine_vars, registry_vars, wire, builder_vars>>

\* SaveId::save on the saveable component of an entity
Save(entity) ==
    /\ HasSaveId(entity)
    /\ wire' = {ComponentSave(entities[entity].value)}
    /\ call' = [op |-> "save", arg |-> entity]
    /\ log' = <<>>
    /\ UNCHANGED <<sim_changed, ret, sim_vars>>
    /\ UNCHANGED <<engine_vars, registry_vars, builder_vars>>

\* GameSerDeRegistry::serialize_resource called with an id
SerializeResourceCall(id) ==
    /\ wire' = SerializeResource(id)
    /\ call' = [op |-> "serialize_resource", arg |-> id]
    /\ log' = <<>>
    /\ UNCHANGED <<sim_changed, ret, sim_vars>>
    /\ UNCHANGED <<engine_vars, registry_vars, builder_vars>>

----------------------------------------------------------------------------
(* GameBuilder *)

\* the systems a caller may add to GameBuilder.setup_schedule
SetupSystems == {"spawn_map", "spawn_units"}

\* the command lists a game is created with
CommandLists == UNION {[1..n -> GameCommand] : n \in 0..MaxCommands}

\* new_game_with_commands: the queue made of the commands, each stamped with
\* a reading of the clock
StampedQueue(list) == [i \in 1..Len(list) |-> GameCommandMeta(list[i], i)]

\* Schedule::run on game_world: every system of the schedule runs once more
ScheduleRun(schedule, runs) ==
    [system \in SetupSystems |->
        IF system \in schedule THEN runs[system] + 1 ELSE runs[system]]

\* what build does, in order; with_commands says that the builder holds
\* GameCommands when build is called
BuildSteps(with_commands) ==
    <<"setup_schedule.run", "insert GameRuntime", "insert GameSerDeRegistry",
      "insert TrackedDespawns", "insert ResourceChangeTracking", "insert PlayerList",
      IF with_commands THEN "execute_buffer" ELSE "GameCommands::default",
      "insert GameCommands", "setup_schedule.run", "insert SimWorld">>

\* GameBuilder::new_game: an empty world, no commands held
NewGame ==
    /\ queue = <<>>
    /\ now = 0
    /\ commands = "None"

\* GameBuilder::new_game_with_commands
NewGameWithCommands(list) ==
    /\ queue = StampedQueue(list)
    /\ now = Len(list)
    /\ commands = "Some"

\* a caller adds a system to the public setup_schedule
AddSetupSystem(system) ==
    /\ build_steps = <<>>
    /\ system \notin setup_schedule
    /\ setup_schedule' = setup_schedule \cup {system}
    /\ call' = [op |-> "add_systems", arg |-> system]
    /\ log' = <<>>
    /\ UNCHANGED <<commands, next_player_id, setup_runs, build_steps>>
    /\ UNCHANGED <<engine_vars, sim_changed, ret, sim_vars, registry_vars, wire>>

\* an id counter that is not advanced
NextPlayerIdStays(id) == id

\* self.next_player_id += 1
NextPlayerId(id) == id + 1

\* GameBuilder::add_player: takes the next id, spawns an entity that carries
\* only a Player component and pushes the player to the list
AddPlayer(needs_state) ==
    /\ build_steps = <<>>
    /\ next_player_id < MaxPlayers
    /\ \E unused \in Entities : entities[unused] = Unspawned
    /\ LET entity == CHOOSE unused \in Entities : entities[unused] = Unspawned
       IN entities' = [entities EXCEPT ![entity] = Alive("owner", 0, FALSE, FALSE)]
    /\ next_player_id' = NextPlayerId(next_player_id)
    /\ player_list' = Append(player_list, Player(next_player_id, needs_state))
    /\ call' = [op |-> "add_player", arg |-> needs_state]
    /\ log' = <<>>
    /\ UNCHANGED <<setup_schedule, commands, setup_runs, build_steps>>
    /\ UNCHANGED <<engine_vars, sim_changed, ret, registry_vars, wire>>
    /\ UNCHANGED <<despawned_objects, resource, resource_tracking, snapshot,
                   delivered, polled, replaced>>

\* GameBuilder::remove_commands: take() hands the commands to the caller
RemoveCommands ==
    /\ build_steps = <<>>
    /\ commands' = "None"
    /\ queue' = <<>>
    /\ history' = <<>>
    /\ rolledback_history' = <<>>
    /\ rollbacks' = 0
    /\ rollforwards' = 0
    /\ call' = [op |-> "remove_commands", arg |-> commands]
    /\ log' = <<>>
    /\ UNCHANGED <<game_world, main_world, now, panicked>>
    /\ UNCHANGED <<setup_schedule, next_player_id, setup_runs, build_steps>>
    /\ UNCHANGED <<sim_changed, ret, sim_vars, registry_vars, wire>>

\* GameBuilder::insert_commands with commands that hold the given queue
InsertCommands(list) ==
    /\ build_steps = <<>>
    /\ now + Len(list) <= MaxCommands
    /\ commands' = "Some"
    /\ queue' = [i \in 1..Len(list) |-> GameCommandMeta(list[i], now + i)]
    /\ now' = now + Len(list)
    /\ history' = <<>>
    /\ rolledback_history' = <<>>
    /\ rollbacks' = 0
    /\ rollforwards' = 0
    /\ call' = [op |-> "insert_commands", arg |-> Len(list)]
    /\ log' = <<>>
    /\ UNCHANGED <<game_world, main_world, panicked>>
    /\ UNCHANGED <<setup_schedule, next_player_id, setup_runs, build_steps>>
    /\ UNCHANGED <<sim_changed, ret, sim_vars, registry_vars, wire>>

\* GameBuilder::build: runs the setup schedule, inserts the runtime and the
\* resources of the game world, executes the commands held (or makes default
\* ones), runs the setup schedule and inserts SimWorld
Build ==
    /\ build_steps = <<>>
    /\ LET first == ScheduleRun(setup_schedule, setup_runs)
           s == IF commands = "Some"
                THEN ExecuteLoop([history |-> history,
                                  rolledback_history |-> rolledback_history,
                                  world |-> game_world, log |-> <<>>], queue)
                ELSE [history |-> <<>>, rolledback_history |-> <<>>,
                      world |-> game_world, log |-> <<>>]
       IN /\ setup_runs' = ScheduleRun(setup_schedule, first)
          /\ queue' = <<>>
          /\ history' = s.history
          /\ rolledback_history' = s.rolledback_history
          /\ game_world' = s.world
          /\ log' = s.log
          /\ IF commands = "Some"
             THEN UNCHANGED <<rollbacks, rollforwards>>
             ELSE rollbacks' = 0 /\ rollforwards' = 0
    /\ despawned_objects' = EmptyMap
    /\ resource_tracking' = EmptyMap
    /\ commands' = "Some"
    /\ build_steps' = BuildSteps(commands = "Some")
    /\ call' = [op |-> "build", arg |-> 0]
    /\ UNCHANGED <<main_world, now, panicked, setup_schedule, next_player_id>>
    /\ UNCHANGED <<entities, resource, player_list, snapshot, delivered, polled,
                   replaced>>
    /\ UNCHANGED <<sim_changed, ret, registry_vars, wire>>

----------------------------------------------------------------------------
(* The command engine as a state machine *)

\* GameCommands::default(), and two worlds whose counter is 0
CmdInit ==
    /\ queue = <<>>
    /\ history = <<>>
    /\ rolledback_history = <<>>
    /\ rollbacks = 0
    /\ rollforwards = 0
    /\ game_world = 0
    /\ main_world = 0
    /\ now = 0
    /\ panicked = FALSE
    /\ call = [op |-> "new", arg |-> 0]
    /\ log = <<>>

LedgerIdle ==
    /\ sim_changed = [entity \in Entities |-> NoSimChanged]
    /\ ret = FALSE

\* a world with nothing spawned and empty ledgers
WorldIdle ==
    /\ entities = [entity \in Entities |-> Unspawned]
    /\ despawned_objects = EmptyMap
    /\ resource = NoResource
    /\ resource_tracking = EmptyMap
    /\ snapshot = EmptyState
    /\ delivered = NoneDelivered
    /\ polled = {}
    /\ replaced = {}
    /\ wire = {}

\* no builder at hand: nothing scheduled, nothing built
BuilderIdle ==
    /\ setup_schedule = {}
    /\ commands = "None"
    /\ next_player_id = 0
    /\ setup_runs = [system \in SetupSystems |-> 0]
    /\ build_steps = <<>>

\* GameSerDeRegistry::new()
RegistryNew ==
    /\ component_de_map = EmptyMap
    /\ resource_de_map = EmptyMap
    /\ resource_se_map = EmptyMap

Init ==
    CmdInit /\ LedgerIdle /\ WorldIdle /\ RegistryNew /\ BuilderIdle /\ player_list = <<>>

Next ==
    \/ \E command \in GameCommand : Add(command)
    \/ ExecuteGameCommandsBuffer
    \/ RollbackOneRequest
    \/ \E amount \in 0..MaxRequests : RollbackAmount(amount)
    \/ \E amount \in 0..MaxRequests : Rollforward(amount)
    \/ ExecuteGameRollbacksBuffer
    \/ ExecuteGameRollforwardBuffer

Spec == Init /\ [][Next]_vars

----------------------------------------------------------------------------
(* The change records as a state machine *)

LedgerNext ==
    \/ \E touched \in SUBSET Entities : TrackComponentChanges(touched)
    \/ \E entity \in Entities, id \in PlayerIds : CheckAndRegisterSeenCall(entity, id)
    \/ \E entity \in Entities, id \in PlayerIds : WasSeenCall(entity, id)
    \/ \E entity \in Entities, players \in PlayerLists : AllSeenCall(entity, players)

LedgerSpec == Init /\ [][LedgerNext]_vars

----------------------------------------------------------------------------
(* The simulation world as a state machine *)

\* the world GameBuilder::build leaves: the component of the tests registered
\* with register_component, the resource either with register_resource or only
\* with register_resource_track_changes
SimInit ==
    /\ CmdInit
    /\ LedgerIdle
    /\ WorldIdle
    /\ BuilderIdle
    /\ player_list = <<Player(0, TRUE), Player(1, TRUE)>>
    /\ component_de_map = MapInsert(EmptyMap, TestComponentId, "TestComponent")
    /\ \E codec \in BOOLEAN :
          /\ resource_de_map = IF codec THEN MapInsert(EmptyMap, TestResourceId, "TestResource")
                               ELSE EmptyMap
          /\ resource_se_map = resource_de_map

SimNext ==
    \/ \E entity \in SimEntities, kind \in EntityKinds : Spawn(entity, kind)
    \/ \E entity \in SimEntities : Mutate(entity)
    \/ \E entity \in SimEntities : InsertDespawnTracked(entity)
    \/ WriteResource
    \/ Simulate
    \/ \E for_player \in Observers : StateDifRequest(for_player)
    \/ AllStateRequest
    \/ \E players \in SimPlayerLists : ClearChanged(players)

SimSpec == SimInit /\ [][SimNext]_vars

----------------------------------------------------------------------------
(* The registry as a state machine *)

RegistryNext ==
    \/ \E type \in ComponentTypes : RegisterComponent(type)
    \/ \E type \in ResourceTypes : RegisterResource(type)

RegistrySpec == Init /\ [][RegistryNext]_vars

----------------------------------------------------------------------------
(* The builder as a state machine *)

BuildInit ==
    /\ history = <<>>
    /\ rolledback_history = <<>>
    /\ rollbacks = 0
    /\ rollforwards = 0
    /\ game_world = 0
    /\ main_world = 0
    /\ panicked = FALSE
    /\ call = [op |-> "new", arg |-> 0]
    /\ log = <<>>
    /\ LedgerIdle
    /\ WorldIdle
    /\ RegistryNew
    /\ player_list = <<>>
    /\ setup_schedule = {}
    /\ next_player_id = 0
    /\ setup_runs = [system \in SetupSystems |-> 0]
    /\ build_steps = <<>>
    /\ \/ NewGame
       \/ \E list \in CommandLists : NewGameWithCommands(list)

BuildNext ==
    \/ \E system \in SetupSystems : AddSetupSystem(system)
    \/ \E needs_state \in BOOLEAN : AddPlayer(needs_state)
    \/ RemoveCommands
    \/ \E list \in {list \in CommandLists : Len(list) <= 1} : InsertCommands(list)
    \/ Build

BuildSpec == BuildInit /\ [][BuildNext]_vars

----------------------------------------------------------------------------
(* Encoding and decoding as a state machine *)

\* a built world with nothing in it; the component of the tests is registered,
\* the resource of the tests is registered or not
CodecInit ==
    /\ CmdInit
    /\ LedgerIdle
    /\ WorldIdle
    /\ BuilderIdle
    /\ player_list = <<>>
    /\ component_de_map = MapInsert(EmptyMap, TestComponentId, "TestComponent")
    /\ \E codec \in BOOLEAN :
          /\ resource_de_map = IF codec THEN MapInsert(EmptyMap, TestResourceId, "TestResource")
                               ELSE EmptyMap
          /\ resource_se_map = resource_de_map

CodecNext ==
    \/ \E entity \in SimEntities : SpawnEmpty(entity)
    \/ \E data \in ComponentStates, entity \in SimEntities :
           DeserializeComponentOnto(data, entity)
    \/ \E resource_state \in ResourceStates : DeserializeResource(resource_state)
    \/ \E entity \in SimEntities : Save(entity)
    \/ \E id \in {TestResourceId, UnknownId} : SerializeResourceCall(id)

CodecSpec == CodecInit /\ [][CodecNext]_vars

----------------------------------------------------------------------------
(* Properties of the command engine *)

\* the capture timestamps of a sequence of command records
Times(s) == [i \in 1..Len(s) |-> s[i].command_time]

\* whether a queued or rolled-back record's execute succeeds
ExecutesOk(meta) == Execute(meta.command, 0).ok

RollsBackOk(meta) == Rollback(meta.command, 0).ok

SumAmounts(s) ==
    LET RECURSIVE Sum(_)
        Sum(k) == IF k = 0 THEN 0 ELSE Sum(k - 1) + s[k].command.amount
    IN Sum(Len(s))

\* C1: redo invalidation.  An execute_buffer call that pushes a command onto
\* the executed history leaves the rolled-back history empty; a rollforward
\* flush that finds the rolled-back history empty re-executes nothing and
\* leaves the executed history and the worlds as they are; and a command
\* undone before a later command was executed never comes back, so the
\* executed history stays in submission order.
C1_HistoryOrdered == StrictlyIncreasing(Times(history))

C1_Step ==
    /\ (call'.op = "execute_buffer" /\ Len(history') > Len(history))
          => rolledback_history' = <<>>
    /\ (call'.op = "rollforward_buffer" /\ rolledback_history = <<>>)
          => /\ history' = history
             /\ rolledback_history' = <<>>
             /\ game_world' = game_world
             /\ main_world' = main_world
             /\ rollforwards' = 0

C1_RedoInvalidation == []C1_HistoryOrdered /\ [][C1_Step]_vars

\* C1, C2 executed, C2 undone, C3 executed, then a rollforward was requested
\* and flushed: the history is [C1, C3]
C1_Witness ==
    /\ call.op = "rollforward_buffer"
    /\ call.arg >= 1
    /\ Times(history) = <<1, 3>>
    /\ rolledback_history = <<>>
    /\ queue = <<>>
    /\ main_world < 0

\* C2: an execute_buffer call whose pending commands all fail leaves the
\* executed history and the rolled-back history as they were.
C2_Step ==
    (/\ call'.op = "execute_buffer"
     /\ \A i \in 1..Len(queue) : ~ExecutesOk(queue[i]))
        => /\ history' = history
           /\ rolledback_history' = rolledback_history

C2_FailedExecuteKeepsStacks == [][C2_Step]_vars

\* C3: with C1, C2, C3 executed in order, flushing 2 rollbacks leaves the
\* object store as it was right after C1, and flushing 1 rollforward after
\* that leaves it as it was after C1, C2, the executed history being [C1, C2]
\* and the rolled-back history [C3].
C3_AfterRollbacks ==
    /\ call = [op |-> "rollbacks_buffer", arg |-> 2]
    /\ ~panicked
    /\ now = 3
    /\ Times(history) = <<1>>
    /\ Times(rolledback_history) = <<3, 2>>

C3_AfterRollforward ==
    /\ call = [op |-> "rollforward_buffer", arg |-> 1]
    /\ ~panicked
    /\ now = 3
    /\ Times(history) = <<1, 2>>
    /\ Times(rolledback_history) = <<3>>
    /\ log = <<>>

C3_RollbackRestoresStore ==
    /\ C3_AfterRollbacks => game_world = SumAmounts(history)
    /\ C3_AfterRollforward => game_world = SumAmounts(history)

\* C4: execute_buffer empties the pending queue and extends the executed
\* history by the commands whose execute succeeded, in submission order.
C4_Step ==
    call'.op = "execute_buffer"
        => /\ queue' = <<>>
           /\ Times(history') = Times(history) \o Times(SelectSeq(queue, ExecutesOk))
           /\ Len(log') = Len(queue) - Len(SelectSeq(queue, ExecutesOk))

C4_ExecuteFifo == [][C4_Step]_vars

C4_Witness ==
    /\ call.op = "execute_buffer"
    /\ queue = <<>>
    /\ Times(history) = <<1, 3>>
    /\ log = <<"execution failed">>

\* C5: when a rollback fails the flush panics at that command: the commands
\* above it have been moved to the rolled-back history, the ones below it
\* stay in the executed history, and the counter keeps the value it had when
\* the failing rollback was called, which is not 0.
FirstFailing(s, m) ==
    \* how many pops reach the first record among the m on top whose rollback
    \* fails; 0 when there is none
    LET top == TopOf(s, m)
        bad == {i \in 1..m : ~RollsBackOk(top[i])}
    IN IF bad = {} THEN 0 ELSE CHOOSE i \in bad : \A j \in bad : i <= j

C5_Step ==
    LET m == Min(rollbacks, Len(history))
        k == FirstFailing(history, m)
    IN (call'.op = "rollbacks_buffer" /\ k > 0)
          => /\ panicked'
             /\ rollbacks' = rollbacks - (k - 1)
             /\ rollbacks' > 0
             /\ history' = Below(history, k)
             /\ rolledback_history' = rolledback_history \o TopOf(history, k - 1)

C5_RollbackFailureFatal == [][C5_Step]_vars

C5_Witness ==
    /\ panicked
    /\ call = [op |-> "rollbacks_buffer", arg |-> 2]
    /\ rollbacks = 1
    /\ Len(history) = 1
    /\ Len(rolledback_history) = 1

\* C6: a rollforward flush always runs its counter down to 0; it pops
\* min(n, d) records off the rolled-back history, pushes the ones whose
\* execute succeeded onto the executed history in pop order, and drops the
\* ones whose execute failed.
C6_Step ==
    LET m == Min(rollforwards, Len(rolledback_history))
        popped == TopOf(rolledback_history, m)
        failed == {popped[i].command_time : i \in {j \in 1..m : ~ExecutesOk(popped[j])}}
    IN call'.op = "rollforward_buffer"
          => /\ rollforwards' = 0
             /\ ~panicked'
             /\ rolledback_history' = Below(rolledback_history, m)
             /\ Times(history') =
                    Times(history) \o Times(SelectSeq(popped, ExecutesOk))
             /\ \A t \in failed :
                    /\ ~Contains(Times(history'), t)
                    /\ ~Contains(Times(rolledback_history'), t)
             /\ Len(log') = Cardinality(failed)

C7_Step ==
    /\ LET m == Min(rollbacks, Len(history))
       IN (call'.op = "rollbacks_buffer" /\ FirstFailing(history, m) = 0)
             => /\ ~panicked'
                /\ rollbacks' = 0
                /\ history' = Below(history, m)
                /\ rolledback_history' = rolledback_history \o TopOf(history, m)
    /\ LET m == Min(rollforwards, Len(rolledback_history))
           popped == TopOf(rolledback_history, m)
       IN call'.op = "rollforward_buffer"
             => /\ ~panicked'
                /\ rollforwards' = 0
                /\ rolledback_history' = Below(rolledback_history, m)
                /\ (\A i \in 1..m : ExecutesOk(popped[i]))
                      => Times(history') = Times(history) \o Times(popped)

C8_Step ==
    /\ call'.op \in {"rollback_one", "rollback_amount"}
          => /\ rollbacks' = rollbacks + call'.arg
             /\ call'.op = "rollback_one" => call'.arg = 1
             /\ UNCHANGED <<queue, history, rolledback_history, rollforwards,
                            game_world, main_world>>
    /\ call'.op = "rollforward"
          => /\ rollforwards' = rollforwards + call'.arg
             /\ UNCHANGED <<queue, history, rolledback_history, rollbacks,
                            game_world, main_world>>
    /\ rollbacks' # rollbacks
          => call'.op \in {"rollback_one", "rollback_amount", "rollbacks_buffer"}
    /\ rollforwards' # rollforwards
          => call'.op \in {"rollforward", "rollforward_buffer"}

C8_RequestsOnlyCount == [][C8_Step]_vars

C8_Witness ==
    /\ call = [op |-> "rollback_amount", arg |-> 1]
    /\ rollbacks = 2
    /\ rollforwards = 1
    /\ history # <<>>
    /\ queue # <<>>

\* C9: add appends one record to the end of the pending queue and changes
\* nothing else; the queue stays as it is until execute_buffer drains it.
C9_Step ==
    /\ call'.op = "add"
          => /\ Len(queue') = Len(queue) + 1
             /\ Below(queue', 1) = queue
             /\ Last(queue').command \in GameCommand
             /\ UNCHANGED <<history, rolledback_history, rollbacks, rollforwards,
                            game_world, main_world>>
    /\ queue' # queue => call'.op \in {"add", "execute_buffer"}

C9_AddOnlyAppends == [][C9_Step]_vars

C9_Witness ==
    /\ call.op = "add"
    /\ Len(queue) = 2
    /\ history # <<>>
    /\ rollbacks > 0

----------------------------------------------------------------------------
(* Properties of the change record *)

NoDuplicates(s) == \A i, j \in 1..Len(s) : i # j => s[i] # s[j]

\* C10: check_and_register_seen returns true and leaves the record as it is
\* when the id is in players_seen, and otherwise pushes the id and returns
\* false; either way the id is in players_seen afterwards, so the next call
\* with it returns true; and no record ever holds an id twice.
C10_NoIdTwice ==
    \A entity \in Entities :
        sim_changed[entity] # NoSimChanged
            => NoDuplicates(sim_changed[entity].players_seen)

C10_Step ==
    call'.op = "check_and_register_seen"
        => LET entity == call'.arg[1]
               id == call'.arg[2]
               old == sim_changed[entity].players_seen
               new == sim_changed'[entity].players_seen
           IN /\ (id \in Range(old)) => (ret' = TRUE /\ new = old)
              /\ (id \notin Range(old)) => (ret' = FALSE /\ new = old \o <<id>>)
              /\ CheckAndRegisterSeen(sim_changed'[entity], id).ret = TRUE
              /\ \A other \in Entities \ {entity} :
                     sim_changed'[other] = sim_changed[other]

C10_CheckAndRegister == []C10_NoIdTwice /\ [][C10_Step]_vars

\* a call that found the id among two already registered
C10_Witness ==
    /\ call.op = "check_and_register_seen"
    /\ ret = TRUE
    /\ Len(sim_changed[call.arg[1]].players_seen) >= 2
    /\ call.arg[2] = sim_changed[call.arg[1]].players_seen[1]

\* C11: all_seen is true exactly when every listed player flagged needs_state
\* has its id in players_seen; players not flagged, and registered ids of no
\* listed player, do not count.  The call leaves the record as it is.
C11_Step ==
    call'.op = "all_seen"
        => LET entity == call'.arg[1]
               players == call'.arg[2]
               seen == Range(sim_changed[entity].players_seen)
               required == {players[i].id :
                               i \in {j \in 1..Len(players) : players[j].needs_state}}
           IN /\ ret' = (required \subseteq seen)
              /\ sim_changed' = sim_changed

C11_AllSeen == [][C11_Step]_vars

\* true although a listed player that is not flagged is missing and an id of
\* no listed player is registered
C11_Witness ==
    /\ call.op = "all_seen"
    /\ ret = TRUE
    /\ LET players == call.arg[2]
           seen == Range(sim_changed[call.arg[1]].players_seen)
       IN /\ \E i \in 1..Len(players) : players[i].needs_state
          /\ \E i \in 1..Len(players) :
                 ~players[i].needs_state /\ players[i].id \notin seen
          /\ \E id \in seen : \A i \in 1..Len(players) : players[i].id # id

----------------------------------------------------------------------------
(* Properties of the ledgers of the simulation world *)

\* the ids of the listed players flagged needs_state
RequiredIds(players) ==
    {players[i].id : i \in {j \in 1..Len(players) : players[j].needs_state}}

\* every required player of the list is registered in the record
SeenByAll(changed, players) == RequiredIds(players) \subseteq Range(changed.players_seen)

\* the entities that carry a change record
Dirty == {entity \in Entities : sim_changed[entity] # NoSimChanged}

\* C12: after clear_changed with a player list, no record left on an entity, in
\* the despawn ledger or in the resource ledger satisfies all_seen for that
\* list, and every record that did not satisfy it before the call is still
\* there with the same players_seen.
C12_Step ==
    call'.op = "clear_changed"
        => LET players == call'.arg
           IN /\ \A entity \in Entities :
                     sim_changed'[entity] # NoSimChanged
                         => ~SeenByAll(sim_changed'[entity], players)
              /\ \A entity \in DOMAIN despawned_objects' :
                     ~SeenByAll(despawned_objects'[entity], players)
              /\ \A id \in DOMAIN resource_tracking' :
                     ~SeenByAll(resource_tracking'[id], players)
              /\ \A entity \in Dirty :
                     ~SeenByAll(sim_changed[entity], players)
                         => sim_changed'[entity] = sim_changed[entity]
              /\ \A entity \in DOMAIN despawned_objects :
                     ~SeenByAll(despawned_objects[entity], players)
                         => /\ entity \in DOMAIN despawned_objects'
                            /\ despawned_objects'[entity] = despawned_objects[entity]
              /\ \A id \in DOMAIN resource_tracking :
                     ~SeenByAll(resource_tracking[id], players)
                         => /\ id \in DOMAIN resource_tracking'
                            /\ resource_tracking'[id] = resource_tracking[id]

C12_ClearChanged == [][C12_Step]_vars

\* a clear_changed for a list with a required player has taken the record of a
\* live, unchanged entity and left a resource record that player has not seen
C12_Witness ==
    /\ call.op = "clear_changed"
    /\ RequiredIds(call.arg) # {}
    /\ entities["e1"].status = "alive"
    /\ ~entities["e1"].changed
    /\ sim_changed["e1"] = NoSimChanged
    /\ DOMAIN resource_tracking # {}

\* the entry of a snapshot for an entity with a value, in the bucket of its kind
InSnapshot(state, entity, value) ==
    \/ /\ entities[entity].kind = "player"
       /\ \E s \in state.players : s.components = <<ComponentSave(value)>>
    \/ /\ entities[entity].kind = "object"
       /\ \E s \in state.entities :
              s.entity = entity /\ s.components = <<ComponentSave(value)>>

\* C13: the simulate step after a mutation gives the mutated entity, and the
\* changed resource, a record with empty players_seen whatever the record held
\* before; and an observer that had received the item under the replaced
\* record receives it again, with the value it has now, when it makes the next
\* delta request.
C13_Step ==
    /\ call'.op = "simulate"
           => /\ \A entity \in Entities :
                     (/\ entities[entity].status = "alive"
                      /\ entities[entity].changed
                      /\ ~entities[entity].despawn_tracked)
                         => sim_changed'[entity] = SimChangedDefault
              /\ (resource.present /\ resource.changed)
                     => /\ TestResourceId \in DOMAIN resource_tracking'
                        /\ resource_tracking'[TestResourceId] = SimChangedDefault
    /\ (call.op = "simulate" /\ call'.op = "state_dif")
           => /\ \A entity \in Entities :
                     <<entity, call'.arg>> \in call.arg.objects
                         => InSnapshot(snapshot', entity, entities[entity].value)
              /\ call'.arg \in call.arg.resources
                     => [resource_id |-> TestResourceId,
                         resource |-> ToBinary(resource.value)] \in snapshot'.resources

C13_MutationResetsSeen == [][C13_Step]_vars

\* a simulate step has replaced the record of an entity and the record of the
\* resource after observer 0 had received both
C13_Witness ==
    /\ call.op = "simulate"
    /\ <<"e1", 0>> \in call.arg.objects
    /\ 0 \in call.arg.resources
    /\ sim_changed["e1"] = SimChangedDefault
    /\ resource_tracking[TestResourceId] = SimChangedDefault

\* C14: when an observer makes a delta request and has already made one since
\* the last simulate step, the only step that records mutations, despawns and
\* resource changes, the snapshot holds no object, no despawned id and no
\* resource.
C14_Step ==
    (call'.op = "state_dif" /\ call'.arg \in polled) => snapshot' = EmptyState

C14_AtMostOnce == [][C14_Step]_vars

\* a delta request returned nothing although the entity, the despawn ledger or
\* the resource ledger holds a record with the observer registered: it was
\* registered by an earlier request
C14_Witness ==
    /\ call.op = "state_dif"
    /\ snapshot = EmptyState
    /\ "e1" \in Saveable
    /\ sim_changed["e1"] # NoSimChanged
    /\ Contains(sim_changed["e1"].players_seen, call.arg)
    /\ TestResourceId \in DOMAIN resource_tracking
    /\ TestResourceId \in DOMAIN resource_se_map
    /\ Contains(resource_tracking[TestResourceId].players_seen, call.arg)

\* C15: clear_changed removes a record only when every player of the list that
\* is flagged needs_state has been returned the item, by a delta request, since
\* the record was installed.
C15_Step ==
    call'.op = "clear_changed"
        => LET required == RequiredIds(call'.arg)
           IN /\ \A entity \in Dirty :
                     sim_changed'[entity] = NoSimChanged
                         => required \subseteq delivered.objects[entity]
              /\ \A entity \in DOMAIN despawned_objects \ DOMAIN despawned_objects' :
                     required \subseteq delivered.despawns[entity]
              /\ \A id \in DOMAIN resource_tracking \ DOMAIN resource_tracking' :
                     required \subseteq delivered.resources

C15_DeliveredBeforeCleared == [][C15_Step]_vars

\* every mutation has been recorded by a simulate step: no entity and no
\* resource changed, and no entity was marked for despawn, since the last one
Recorded ==
    /\ \A entity \in Entities :
           entities[entity].status = "alive"
               => ~entities[entity].changed /\ ~entities[entity].despawn_tracked
    /\ resource.present => ~resource.changed

\* C16: when every player of the list that is flagged needs_state has made a
\* delta request since the last simulate step, and nothing was mutated after
\* that step, every record on an entity, in the despawn ledger and in the
\* resource ledger satisfies all_seen, and clear_changed leaves the three
\* ledgers empty.
C16_Step ==
    (/\ call'.op = "clear_changed"
     /\ Recorded
     /\ RequiredIds(call'.arg) \subseteq polled)
        => /\ \A entity \in Dirty : SeenByAll(sim_changed[entity], call'.arg)
           /\ \A entity \in DOMAIN despawned_objects :
                  SeenByAll(despawned_objects[entity], call'.arg)
           /\ \A id \in DOMAIN resource_tracking :
                  SeenByAll(resource_tracking[id], call'.arg)
           /\ \A entity \in Entities : sim_changed'[entity] = NoSimChanged
           /\ despawned_objects' = EmptyMap
           /\ resource_tracking' = EmptyMap

C16_EventualReclamation == [][C16_Step]_vars

\* C17: a full request changes no record: the SimChanged of every entity, the
\* despawn ledger and the resource ledger are the same before and after, and
\* every observer's delta request would build the same snapshot after it as
\* before it.
C17_Step ==
    call'.op = "all_state"
        => /\ sim_changed' = sim_changed
           /\ despawned_objects' = despawned_objects
           /\ resource_tracking' = resource_tracking
           /\ \A for_player \in Observers :
                  StateDifState(for_player)' = StateDifState(for_player)

C17_AllStateReadsOnly == [][C17_Step]_vars

\* a full request was answered while the entity and the resource carried
\* records, one of them with an observer registered, and a delta request of
\* observer 0 would still return something
C17_Witness ==
    /\ call.op = "all_state"
    /\ snapshot # EmptyState
    /\ "e1" \in Visited
    /\ sim_changed["e1"].players_seen # <<>>
    /\ TestResourceId \in DOMAIN resource_tracking
    /\ StateDifState(0) # EmptyState

\* C18: the snapshot of a full request holds every resource that is in the
\* world and has a registered serializer, with its current value, whether or
\* not the resource ledger has a record for it.
C18_Step ==
    (/\ call'.op = "all_state"
     /\ resource.present
     /\ TestResourceId \in DOMAIN resource_se_map)
        => [resource_id |-> TestResourceId,
            resource |-> ToBinary(resource.value)] \in snapshot'.resources

C18_FullModeResources == [][C18_Step]_vars

\* the observer is registered in the record by this step
NewlySeen(before, after, id) ==
    ~Contains(before.players_seen, id) /\ Contains(after.players_seen, id)

\* C19: every record a delta request registers its observer in, on an entity,
\* in the despawn ledger or in the resource ledger, has its item in the
\* snapshot the request returns.
C19_Step ==
    call'.op = "state_dif"
        => LET id == call'.arg
           IN /\ \A entity \in Dirty :
                     NewlySeen(sim_changed[entity], sim_changed'[entity], id)
                         => InSnapshot(snapshot', entity, entities[entity].value)
              /\ \A entity \in DOMAIN despawned_objects :
                     NewlySeen(despawned_objects[entity], despawned_objects'[entity], id)
                         => entity \in snapshot'.despawned_objects
              /\ \A r \in DOMAIN resource_tracking :
                     NewlySeen(resource_tracking[r], resource_tracking'[r], id)
                         => \E s \in snapshot'.resources : s.resource_id = r

C19_SeenMeansDelivered == [][C19_Step]_vars

----------------------------------------------------------------------------
(* Properties of the registry *)

\* C20: registering a type whose id is already a key of the map of its kind
\* panics and leaves the three maps as they were, so the id still leads to the
\* type registered first; registering under an id that is not a key of that
\* map succeeds whatever the map of the other kind holds, and changes only the
\* maps of its own kind.
C20_Step ==
    /\ call'.op = "register_component"
           => LET id == SaveIdConst(call'.arg)
              IN /\ id \in DOMAIN component_de_map
                        => /\ panicked'
                           /\ component_de_map' = component_de_map
                 /\ id \notin DOMAIN component_de_map
                        => /\ ~panicked'
                           /\ DOMAIN component_de_map' = DOMAIN component_de_map \cup {id}
                           /\ component_de_map'[id] = call'.arg
                           /\ \A k \in DOMAIN component_de_map :
                                  component_de_map'[k] = component_de_map[k]
                 /\ resource_de_map' = resource_de_map
                 /\ resource_se_map' = resource_se_map
    /\ call'.op = "register_resource"
           => LET id == SaveIdConst(call'.arg)
              IN /\ id \in DOMAIN resource_de_map
                        => /\ panicked'
                           /\ resource_de_map' = resource_de_map
                           /\ resource_se_map' = resource_se_map
                 /\ id \notin DOMAIN resource_de_map
                        => /\ ~panicked'
                           /\ DOMAIN resource_de_map' = DOMAIN resource_de_map \cup {id}
                           /\ resource_de_map'[id] = call'.arg
                           /\ resource_se_map'[id] = call'.arg
                           /\ \A k \in DOMAIN resource_de_map :
                                  /\ resource_de_map'[k] = resource_de_map[k]
                                  /\ resource_se_map'[k] = resource_se_map[k]
                 /\ component_de_map' = component_de_map

C20_DuplicateIdFatal == [][C20_Step]_vars

\* the id of the tests was registered once as a component and once as a
\* resource without error; a second resource type with that id then panicked
\* and the id still leads to the first
C20_Witness ==
    /\ panicked
    /\ call = [op |-> "register_resource", arg |-> "OtherResource"]
    /\ TestComponentId \in DOMAIN component_de_map
    /\ TestResourceId \in DOMAIN resource_de_map
    /\ resource_de_map[TestResourceId] = "TestResource"
    /\ resource_se_map[TestResourceId] = "TestResource"

----------------------------------------------------------------------------
(* Properties of the codecs *)

\* bincode has no u32 to read: fewer than four bytes
Malformed(bytes) == Len(bytes) < 4

\* C21: deserialize_component_onto and deserialize_resource never fail: no
\* panic is raised, and when the id has no registered decoder or the bytes are
\* malformed the entity, and the resource, are as they were before the call.
C21_Step ==
    /\ call'.op = "deserialize_component_onto"
           => LET data == call'.arg[1]
              IN /\ ~panicked'
                 /\ (data.id \notin DOMAIN component_de_map \/ Malformed(data.component))
                        => /\ entities' = entities
                           /\ resource' = resource
    /\ call'.op = "deserialize_resource"
           => LET data == call'.arg
              IN /\ ~panicked'
                 /\ (data.resource_id \notin DOMAIN resource_de_map
                         \/ Malformed(data.resource))
                        => /\ resource' = resource
                           /\ entities' = entities

C21_DecodeNeverFails == [][C21_Step]_vars

\* malformed bytes under a registered resource id were handed to
\* deserialize_resource while the world holds a resource with a value that
\* differs from what the bytes would pad to
C21_Witness ==
    /\ call.op = "deserialize_resource"
    /\ call.arg = [resource_id |-> TestResourceId, resource |-> <<1, 2, 3>>]
    /\ TestResourceId \in DOMAIN resource_de_map
    /\ resource.present
    /\ resource.value = 258
    /\ ~panicked

\* C28: decoding the encoding of a value onto an entity, or into the world,
\* and then encoding what was decoded gives the id and the bytes that were
\* decoded: save after deserialize_component_onto, and serialize_resource after
\* deserialize_resource, return the state that went in.
C28_Step ==
    /\ (/\ call.op = "deserialize_component_onto"
        /\ call.arg[1].id = TestComponentId
        /\ \E value \in CodecValues : call.arg[1].component = ToBinary(value)
        /\ call'.op = "save"
        /\ call'.arg = call.arg[2])
           => wire' = {call.arg[1]}
    /\ (/\ call.op = "deserialize_resource"
        /\ call.arg.resource_id \in DOMAIN resource_de_map
        /\ \E value \in CodecValues : call.arg.resource = ToBinary(value)
        /\ call'.op = "serialize_resource"
        /\ call'.arg = call.arg.resource_id)
           => wire' = {call.arg}

C28_RoundTrip == [][C28_Step]_vars

\* the encoding of a value that fills all four bytes was decoded onto the
\* entity and encoded again
C28_Witness ==
    /\ call.op = "save"
    /\ entities[call.arg].kind = "object"
    /\ entities[call.arg].value = 16909060
    /\ wire = {[id |-> TestComponentId, component |-> <<4, 3, 2, 1>>]}

----------------------------------------------------------------------------
(* Two observers and one object *)

\* the entries a snapshot holds for an entity: those of the players bucket when
\* the entity carries Player, those with its id in the entities bucket otherwise
EntriesOf(state, entity) ==
    IF entities[entity].kind = "player" THEN state.players
    ELSE {s \in state.entities : s.entity = entity}

\* the snapshot holds one entry for the entity and it carries the given value
OnceWith(state, entity, value) ==
    /\ Cardinality(EntriesOf(state, entity)) = 1
    /\ \A s \in EntriesOf(state, entity) : s.components = <<ComponentSave(value)>>

\* C22: the object was dirtied and delivered to observer A but not to B, then
\* dirtied again; the delta request B makes next, its first since, holds the
\* object once, with the value the object has now, and no entry with another
\* value: the version A received is never delivered to B.
C22_Step ==
    call'.op = "state_dif"
        => LET B == call'.arg
           IN \A entity \in Visited :
                  (/\ B \notin polled
                   /\ <<entity, B>> \notin replaced
                   /\ \E A \in Observers \ {B} : <<entity, A>> \in replaced)
                      => OnceWith(snapshot', entity, entities[entity].value)

C22_CoalescingForLateObserver == [][C22_Step]_vars

\* observer 1 has just been answered; the record it was delivered under took
\* the place of one under which only observer 0 had received the object
C22_Witness ==
    /\ call = [op |-> "state_dif", arg |-> 1]
    /\ <<"e1", 0>> \in replaced
    /\ <<"e1", 1>> \notin replaced
    /\ "e1" \in Visited
    /\ sim_changed["e1"].players_seen = <<1>>
    /\ OnceWith(snapshot, "e1", entities["e1"].value)

\* C23, as claimed: once observer A has received the object and the object is
\* dirtied again, no later delta request of A holds the object.
C23_Original_Step ==
    call'.op = "state_dif"
        => \A entity \in Entities :
               (entities[entity].status = "alive" /\ <<entity, call'.arg>> \in replaced)
                   => EntriesOf(snapshot', entity) = {}

C23_NeverRedelivered == [][C23_Original_Step]_vars

\* C23, amended: once observer A has received the object and the object is
\* dirtied again, the first delta request A makes after the post schedule has
\* recorded the second mutation holds the object once, with the value it has
\* now; the requests A makes after that one, until the post schedule runs
\* again, do not hold the object.
C23_Step ==
    call'.op = "state_dif"
        => LET A == call'.arg
           IN \A entity \in Entities :
                  (entities[entity].status = "alive" /\ <<entity, A>> \in replaced)
                      => /\ (A \notin polled /\ entity \in Visited)
                                => OnceWith(snapshot', entity, entities[entity].value)
                         /\ A \in polled => EntriesOf(snapshot', entity) = {}

C23_RedeliveredOnce == [][C23_Step]_vars

\* observer 0 has just been answered with the object, under a record that took
\* the place of one under which it had already received the object, and
\* observer 1 has not polled since
C23_Witness ==
    /\ call = [op |-> "state_dif", arg |-> 0]
    /\ <<"e1", 0>> \in replaced
    /\ <<"e1", 1>> \notin replaced
    /\ polled = {0}
    /\ "e1" \in Visited
    /\ sim_changed["e1"].players_seen = <<0>>
    /\ OnceWith(snapshot, "e1", entities["e1"].value)

----------------------------------------------------------------------------
(* Despawns *)

\* C24: the simulate step that finds DespawnTracked on an entity removes the
\* entity from the world and leaves a despawn record for its id with empty
\* players_seen; a delta request reports the id exactly when its observer is
\* not yet registered in the record, and registers it; and a record leaves the
\* ledger only in a clear_changed whose player list it satisfies all_seen for.
C24_Step ==
    /\ call'.op = "simulate"
           => \A entity \in Entities :
                  (entities[entity].status = "alive" /\ entities[entity].despawn_tracked)
                      => /\ entities'[entity].status = "despawned"
                         /\ entity \in DOMAIN despawned_objects'
                         /\ despawned_objects'[entity].players_seen = <<>>
    /\ call'.op = "state_dif"
           => \A entity \in DOMAIN despawned_objects :
                  /\ entity \in snapshot'.despawned_objects
                         <=> call'.arg \notin Range(despawned_objects[entity].players_seen)
                  /\ entity \in DOMAIN despawned_objects'
                  /\ call'.arg \in Range(despawned_objects'[entity].players_seen)
    /\ \A entity \in DOMAIN despawned_objects :
           entity \notin DOMAIN despawned_objects'
               => /\ call'.op = "clear_changed"
                  /\ SeenByAll(despawned_objects[entity], call'.arg)

C24_DespawnRecorded == [][C24_Step]_vars

\* the entity is gone and its despawn record, reported to observer 1 only, has
\* outlived a clear_changed for a list that requires observer 0
C24_Witness ==
    /\ call.op = "clear_changed"
    /\ 0 \in RequiredIds(call.arg)
    /\ entities["e1"].status = "despawned"
    /\ "e1" \in DOMAIN despawned_objects
    /\ despawned_objects["e1"].players_seen = <<1>>

----------------------------------------------------------------------------
(* The executed history and the effects in force *)

\* C25: as long as no rollback has failed, the executed history holds exactly
\* the commands whose effect is in force (executed successfully and not rolled
\* back since): the effects in force, counted over both worlds the calls act
\* on, are those of the commands of the history; the history is in the order
\* the commands were applied; and no command of the rolled-back history is in
\* the executed history.
C25_HistoryIsApplied ==
    ~panicked
        => /\ SumAmounts(history) = game_world + main_world
           /\ StrictlyIncreasing(Times(history))
           /\ Range(Times(history)) \cap Range(Times(rolledback_history)) = {}

\* three commands were executed; one is in the history, one is rolled back and
\* one was dropped when its re-execution failed
C25_Witness ==
    /\ ~panicked
    /\ now = 3
    /\ queue = <<>>
    /\ Len(history) = 1
    /\ Len(rolledback_history) = 1
    /\ call.op = "rollforward_buffer"

----------------------------------------------------------------------------
(* Game setup *)

\* C26: once build has returned, every system placed in the setup schedule
\* has taken effect on the simulation world exactly once, and the run of the
\* setup schedule is the last thing build did before it inserted SimWorld.
C26_SetupRunsOnce ==
    build_steps # <<>>
        => /\ \A system \in setup_schedule : setup_runs[system] = 1
           /\ Last(build_steps) = "insert SimWorld"
           /\ Last(Front(build_steps)) = "setup_schedule.run"

----------------------------------------------------------------------------
(* The full snapshot *)

\* C27: the snapshot of a full request holds one entry for every live entity
\* that has a saveable component and does not carry DespawnTracked, in players
\* when the entity carries Player and in entities otherwise, never in both;
\* it holds no entry for any other entity; and its despawned list is the set
\* of ids that have a record in the despawn ledger.
C27_Step ==
    call'.op = "all_state"
        => /\ \A entity \in Entities :
                  LET listed == {s \in snapshot'.entities : s.entity = entity}
                  IN IF HasSaveId(entity) /\ ~entities[entity].despawn_tracked
                     THEN /\ OnceWith(snapshot', entity, entities[entity].value)
                          /\ IF entities[entity].kind = "player"
                             THEN /\ listed = {}
                                  /\ \A s \in snapshot'.players :
                                         s.player_id = PlayerComponent
                             ELSE Cardinality(listed) = 1
                     ELSE listed = {}
           /\ snapshot'.players # {}
                  => \E entity \in Entities :
                         /\ HasSaveId(entity)
                         /\ ~entities[entity].despawn_tracked
                         /\ entities[entity].kind = "player"
           /\ snapshot'.despawned_objects = DOMAIN despawned_objects

C27_FullModeObjects == [][C27_Step]_vars

\* a full request was answered with the entity, which carries Player, in the
\* players bucket
C27_Witness ==
    /\ call.op = "all_state"
    /\ entities["e1"].status = "alive"
    /\ entities["e1"].kind = "player"
    /\ Cardinality(snapshot.players) = 1
    /\ snapshot.entities = {}

\* a full request was answered while the ledger held a despawn record
C27_WitnessDespawned ==
    /\ call.op = "all_state"
    /\ snapshot.despawned_objects = {"e1"}

----------------------------------------------------------------------------
(* The store the engine acts on *)

\* C29: executing the queue, flushing the rollbacks and flushing the
\* rollforwards act on one store, the world held by SimWorld: none of them
\* changes another world, and after each of them the store has gained the
\* effects of the commands that entered the executed history and lost the
\* effects of those that left it.
C29_Step ==
    call'.op \in {"execute_buffer", "rollbacks_buffer", "rollforward_buffer"} /\ ~panicked'
        => /\ main_world' = main_world
           /\ game_world' = game_world + SumAmounts(history') - SumAmounts(history)

C29_OneStore == [][C29_Step]_vars

----------------------------------------------------------------------------
(* Undo and redo on the stacks *)

\* what a rollforward flush of k does from the state a step ends in
RedoFromNext(k) ==
    RollforwardLoop([history |-> history',
                     rolledback_history |-> rolledback_history',
                     rollforwards |-> k,
                     world |-> main_world',
                     log |-> <<>>])

\* C30: a flush of n rollbacks from an executed history of depth at least n,
\* none of them failing and the n commands being re-executable, followed by a
\* flush of n rollforwards gives back both stacks as they were, contents and
\* order; followed by a flush of k < n rollforwards instead, it leaves the
\* n - k commands undone first on top of the rolled-back history.
C30_Step ==
    LET n == rollbacks IN
    (/\ call'.op = "rollbacks_buffer"
     /\ ~panicked'
     /\ n <= Len(history)
     /\ \A i \in (Len(history) - n + 1)..Len(history) : ExecutesOk(history[i]))
        => /\ RedoFromNext(n).history = history
           /\ RedoFromNext(n).rolledback_history = rolledback_history
           /\ RedoFromNext(n).log = <<>>
           /\ \A k \in 0..(n - 1) :
                  /\ RedoFromNext(k).history = Below(history, n - k)
                  /\ RedoFromNext(k).rolledback_history =
                         rolledback_history \o SubSeq(TopOf(history, n), 1, n - k)

C30_UndoRedoRoundTrip == [][C30_Step]_vars

\* two of three executed commands, both re-executable, were rolled back on a
\* rolled-back history that was empty, and two rollforwards are requested
C30_Witness ==
    /\ call = [op |-> "rollbacks_buffer", arg |-> 2]
    /\ ~panicked
    /\ rollforwards = 2
    /\ Times(history) = <<1>>
    /\ Times(rolledback_history) = <<3, 2>>
    /\ \A i \in 1..2 : ExecutesOk(rolledback_history[i])

----------------------------------------------------------------------------
(* Conservation of the command records *)

\* the records held by the queue and the two stacks, by submission time
HeldTimes == Times(queue) \o Times(history) \o Times(rolledback_history)

\* C31: no command record is held twice, whether in one or in two of the
\* pending queue, the executed history and the rolled-back history; and the
\* two histories together gain records only in execute_buffer, at most as
\* many as queued commands execute successfully, so that they never hold more
\* records than there were successful first executions.
C31_HeldOnce ==
    \A i, j \in 1..Len(HeldTimes) : i # j => HeldTimes[i] # HeldTimes[j]

C31_Step ==
    Len(history') + Len(rolledback_history')
        <= Len(history) + Len(rolledback_history)
           + (IF call'.op = "execute_buffer"
              THEN Cardinality({i \in 1..Len(queue) : ExecutesOk(queue[i])})
              ELSE 0)

C31_Conservation == []C31_HeldOnce /\ [][C31_Step]_vars

\* the queue and both stacks hold a record each, the three commands submitted
C31_Witness ==
    /\ queue # <<>>
    /\ history # <<>>
    /\ rolledback_history # <<>>
    /\ call.op = "add"
    /\ now = 3

----------------------------------------------------------------------------
(* Observers do not interfere *)

\* the ids registered in a record, none when there is no record
SeenIds(changed) == IF changed = NoSimChanged THEN {} ELSE Range(changed.players_seen)

\* C32: a delta request of observer A adds at most A to the ids registered in
\* a change record and removes none, in all three ledgers, so that for every
\* other observer B what B's next delta request returns is the same after
\* A's request as before it.
C32_Step ==
    call'.op = "state_dif"
        => LET A == call'.arg
           IN /\ \A entity \in Entities :
                     /\ SeenIds(sim_changed[entity]) \subseteq SeenIds(sim_changed'[entity])
                     /\ SeenIds(sim_changed'[entity]) \subseteq
                            SeenIds(sim_changed[entity]) \cup {A}
              /\ DOMAIN despawned_objects' = DOMAIN despawned_objects
              /\ \A entity \in DOMAIN despawned_objects :
                     /\ SeenIds(despawned_objects[entity]) \subseteq
                            SeenIds(despawned_objects'[entity])
                     /\ SeenIds(despawned_objects'[entity]) \subseteq
                            SeenIds(despawned_objects[entity]) \cup {A}
              /\ DOMAIN resource_tracking' = DOMAIN resource_tracking
              /\ \A id \in DOMAIN resource_tracking :
                     /\ SeenIds(resource_tracking[id]) \subseteq
                            SeenIds(resource_tracking'[id])
                     /\ SeenIds(resource_tracking'[id]) \subseteq
                            SeenIds(resource_tracking[id]) \cup {A}
              /\ \A B \in Observers \ {A} : StateDifState(B)' = StateDifState(B)

C32_ObserverIndependence == [][C32_Step]_vars

\* observer 1 has just polled and is registered in the record of the entity,
\* observer 0 is not, and a delta request of observer 0 would return the entity
C32_Witness ==
    /\ call = [op |-> "state_dif", arg |-> 1]
    /\ "e1" \in Visited
    /\ sim_changed["e1"].players_seen = <<1>>
    /\ snapshot # EmptyState
    /\ StateDifState(0) = snapshot

----------------------------------------------------------------------------
(* What clear_changed may remove *)

\* every player of the list whose id the record lacks is not flagged
LackedOnlyByUnflagged(changed, players) ==
    \A i \in 1..Len(players) :
        players[i].id \notin Range(changed.players_seen) => ~players[i].needs_state

\* C33: a record that clear_changed removes, from an entity, from the despawn
\* ledger or from the resource ledger, lacks the id of a listed player only if
\* that player is not flagged needs_state; and when no listed player is
\* flagged, the list being empty or not, clear_changed removes every record of
\* the three ledgers, those with empty players_seen included.
C33_Step ==
    call'.op = "clear_changed"
        => LET players == call'.arg
           IN /\ \A entity \in Dirty :
                     sim_changed'[entity] = NoSimChanged
                         => LackedOnlyByUnflagged(sim_changed[entity], players)
              /\ \A entity \in DOMAIN despawned_objects \ DOMAIN despawned_objects' :
                     LackedOnlyByUnflagged(despawned_objects[entity], players)
              /\ \A id \in DOMAIN resource_tracking \ DOMAIN resource_tracking' :
                     LackedOnlyByUnflagged(resource_tracking[id], players)
              /\ (\A i \in 1..Len(players) : ~players[i].needs_state)
                     => /\ Dirty' = {}
                        /\ despawned_objects' = EmptyMap
                        /\ resource_tracking' = EmptyMap

C33_GarbageOnlyUnrequired == [][C33_Step]_vars

\* clear_changed was called with two players, neither flagged, when nobody had
\* requested anything since the post schedule ran: the entity, which the post
\* schedule has processed, and the resource are left without a record
C33_Witness ==
    /\ call = [op |-> "clear_changed", arg |-> <<Player(0, FALSE), Player(1, FALSE)>>]
    /\ polled = {}
    /\ delivered = NoneDelivered
    /\ HasSaveId("e1")
    /\ ~entities["e1"].changed
    /\ resource.present
    /\ ~resource.changed
    /\ Dirty = {}
    /\ resource_tracking = EmptyMap

----------------------------------------------------------------------------
(* Live and despawned in one snapshot *)

\* C34: in the snapshot of a request, full or delta, every entry of the
\* entities bucket is for a live entity that does not carry DespawnTracked
\* and is not in the snapshot's despawned list, and the players bucket has
\* entries only when there is such an entity carrying Player; in every state
\* the ids of the despawn ledger are of despawned entities, and a despawned
\* entity has no change record.
C34_SnapshotStep ==
    call'.op \in {"state_dif", "all_state"}
        => /\ \A s \in snapshot'.entities :
                  /\ entities[s.entity].status = "alive"
                  /\ ~entities[s.entity].despawn_tracked
                  /\ s.entity \notin snapshot'.despawned_objects
           /\ snapshot'.players # {}
                  => \E entity \in Entities \ snapshot'.despawned_objects :
                         /\ entities[entity].status = "alive"
                         /\ entities[entity].kind = "player"
                         /\ ~entities[entity].despawn_tracked
           /\ \A entity \in snapshot'.despawned_objects :
                  entities[entity].status = "despawned"

C34_DespawnedHaveNoRecord ==
    /\ \A entity \in DOMAIN despawned_objects : entities[entity].status = "despawned"
    /\ \A entity \in Entities :
           entities[entity].status = "despawned" => sim_changed[entity] = NoSimChanged

C34_LiveOrDespawned == []C34_DespawnedHaveNoRecord /\ [][C34_SnapshotStep]_vars

\* a delta request reported the despawn of the entity and nothing live
C34_Witness ==
    /\ call.op = "state_dif"
    /\ snapshot.despawned_objects = {"e1"}
    /\ snapshot.entities = {}
    /\ snapshot.players = {}
    /\ entities["e1"].status = "despawned"

----------------------------------------------------------------------------
(* The commands a game is created with *)

\* C35: a build of a builder that holds commands executes the queued
\* commands once, oldest first, on the simulation world and on no other
\* world: the queue is left empty, the executed history is the commands whose
\* execute succeeded, in the order given, and the simulation world holds the
\* effect of each of them once; after build the queue is empty.
C35_Step ==
    (call'.op = "build" /\ commands = "Some")
        => /\ queue' = <<>>
           /\ Times(history') = Times(SelectSeq(queue, ExecutesOk))
           /\ game_world' = game_world + SumAmounts(SelectSeq(queue, ExecutesOk))
           /\ main_world' = main_world
           /\ Cardinality({i \in 1..Len(build_steps') :
                               build_steps'[i] = "execute_buffer"}) = 1

C35_QueueEmptyAfterBuild == build_steps # <<>> => queue = <<>>

C35_InitialCommands == []C35_QueueEmptyAfterBuild /\ [][C35_Step]_vars

\* a game created with three commands was built: the first and the third are
\* in the executed history, the second failed
C35_Witness ==
    /\ call.op = "build"
    /\ Contains(build_steps, "execute_buffer")
    /\ now = 3
    /\ Times(history) = <<1, 3>>
    /\ log = <<"execution failed">>
    /\ game_world = SumAmounts(history)

----------------------------------------------------------------------------
(* The players of a game *)

\* C36: the players of the list have the ids 0, 1, 2, ... in the order of the
\* add_player calls, so no two have the same id; next_player_id is the length
\* of the list; and add_player appends one player with the flag it is given
\* and leaves the players added before, flags included, as they are.
C36_IdsInCallOrder ==
    /\ \A i \in 1..Len(player_list) : player_list[i].id = i - 1
    /\ \A i, j \in 1..Len(player_list) :
           i # j => player_list[i].id # player_list[j].id
    /\ next_player_id = Len(player_list)

C36_Step ==
    /\ call'.op = "add_player"
           => /\ Len(player_list') = Len(player_list) + 1
              /\ Last(player_list').needs_state = call'.arg
              /\ Front(player_list') = player_list
    /\ call'.op # "add_player" => player_list' = player_list

C36_AddPlayer == []C36_IdsInCallOrder /\ [][C36_Step]_vars

\* two players were added, the first flagged and the second not
C36_Witness ==
    /\ call = [op |-> "add_player", arg |-> FALSE]
    /\ player_list = <<Player(0, TRUE), Player(1, FALSE)>>
    /\ next_player_id = 2

====
